---------------------------- MODULE Spec2Model ----------------------------
(***************************************************************************)
(* A model of the AINewsBrief pipeline: the persisted deduplication        *)
(* history (src/utils/dedup_history.py), the filter, analyze and send      *)
(* nodes (src/graph/nodes.py) and the LLM analyzer                         *)
(* (src/analyzers/llm_analyzer.py).                                        *)
(*                                                                         *)
(* Time is counted in whole days since the epoch (datetime.fromtimestamp(0)*)
(* is day 0).  A title is a tuple of one-character strings, so that        *)
(* str.lower() and difflib.SequenceMatcher can be computed on it.          *)
(***************************************************************************)
EXTENDS Integers, Sequences, FiniteSets, TLC

VARIABLES
    file,        \* content of the history file at settings.dedup_history_path
    now,         \* the wall clock, datetime.now(timezone.utc), in days
    hpc,         \* position inside _write_history: "idle" or "opened"
    pending,     \* the document _write_history is about to write
    rec_items,   \* the (url, title) pairs of the record call in progress
    loaded,      \* what the last load_dedup_history call returned
    recorded,    \* history of completed record calls: (url, title, at, ...)
    last_record, \* how the last record_seen_articles call ended
    n_records,   \* number of record calls started so far
    written,     \* the last document a record call wrote in full, with
                 \* the records the call had read and the day of the call
    pc,          \* the node of the workflow that runs next
    state,       \* the BriefState handed from node to node
    cfg,         \* the settings the process was started with
    run,         \* number of workflow runs started so far
    local,       \* the local variables of the node that is running
                 \* (send_node; fetch_news_node after its gather)
    file0,       \* the history file as it was when the run started
    calls,       \* analyze_batch: the analyze() call of each article
    results,     \* analyze_batch: the results list
    batch_lo     \* analyze_batch: index before the first article of the batch

hvars == <<file, now, hpc, pending, rec_items, loaded, recorded, last_record,
           n_records, written>>

pvars == <<pc, state, cfg, run, local, file0>>

avars == <<calls, results, batch_lo>>

vars == <<hvars, pvars, avars>>

-----------------------------------------------------------------------------
(* Bounds of the model *)

\* the clock runs from Day0 to Day0 + MaxClock
MaxClock == 3
\* at most this many record_seen_articles calls are started
MaxRecords == 2
\* settings.dedup_history_days, scaled down from its default of 30 days
dedup_history_days == 2

\* the first day of the model; the epoch (day 0) is far behind it
Day0 == 10

-----------------------------------------------------------------------------
(* Values *)

\* a url that is absent, null or empty: bool(url) is False
NoUrl == ""
\* a title that is absent, null or empty: bool(title) is False
NoTitle == <<>>

Urls == {"u1", "u2", "u3"}

TitleEmpty == <<>>
TitleGpt == <<"g", "p", "t">>
TitleGPT5 == <<"G", "P", "T", "5">>
TitleLlm == <<"l", "l", "m">>
TitleAaba == <<"a", "a", "b", "a">>
TitleBaacba == <<"b", "a", "a", "c", "b", "a">>
Titles == {TitleEmpty, TitleGpt, TitleGPT5, TitleLlm}

Max(a, b) == IF a >= b THEN a ELSE b
Min(a, b) == IF a <= b THEN a ELSE b

RECURSIVE SumSeq(_)
SumSeq(s) == IF s = <<>> THEN 0 ELSE Head(s) + SumSeq(Tail(s))

\* the elements of a sequence, as a set
Range(s) == {s[i] : i \in DOMAIN s}

\* all sequences over S of length at most n
SeqsUpTo(S, n) == UNION {[1..k -> S] : k \in 0..n}

-----------------------------------------------------------------------------
(* _calculate_similarity: SequenceMatcher(None, a.lower(), b.lower()).ratio() *)

\* str.lower() on one character
LowerChar(c) ==
    CASE c = "G" -> "g"
      [] c = "P" -> "p"
      [] c = "T" -> "t"
      [] OTHER -> c

\* str.lower()
Lower(s) == [i \in DOMAIN s |-> LowerChar(s[i])]

\* length of the common run of a[i..] and b[j..] inside a[..ahi], b[..bhi]
\* (1-based, bounds inclusive)
RECURSIVE RunLen(_, _, _, _, _, _)
RunLen(a, b, i, j, ahi, bhi) ==
    IF i > ahi \/ j > bhi \/ a[i] # b[j] THEN 0
    ELSE 1 + RunLen(a, b, i + 1, j + 1, ahi, bhi)

\* SequenceMatcher.find_longest_match(alo, ahi, blo, bhi) without junk: the
\* longest matching block, the one starting earliest in a, and of those the
\* one starting earliest in b.  <<i, j, k>>, k = 0 when nothing matches.
find_longest_match(a, b, alo, ahi, blo, bhi) ==
    LET P == (alo..ahi) \X (blo..bhi)
        K(p) == RunLen(a, b, p[1], p[2], ahi, bhi)
    IN  IF P = {} \/ \A p \in P : K(p) = 0 THEN <<alo, blo, 0>>
        ELSE LET best == CHOOSE p \in P :
                            /\ \A q \in P : K(q) <= K(p)
                            /\ \A q \in P : K(q) = K(p) =>
                                   \/ p[1] < q[1]
                                   \/ (p[1] = q[1] /\ p[2] <= q[2])
             IN  <<best[1], best[2], K(best)>>

\* SequenceMatcher.get_matching_blocks: the total size of the matching blocks
\* found by recursing to the left and to the right of the longest match
RECURSIVE matching_size(_, _, _, _, _, _)
matching_size(a, b, alo, ahi, blo, bhi) ==
    LET m == find_longest_match(a, b, alo, ahi, blo, bhi)
    IN  IF m[3] = 0 THEN 0
        ELSE m[3]
             + matching_size(a, b, alo, m[1] - 1, blo, m[2] - 1)
             + matching_size(a, b, m[1] + m[3], ahi, m[2] + m[3], bhi)

\* ratio() is 2.0 * matches / (len(a) + len(b)), and 1.0 for two empty
\* strings.  SimilarAtLeast(t1, t2, num, den) is ratio() >= num / den.
SimilarAtLeast(text1, text2, num, den) ==
    LET a == Lower(text1)
        b == Lower(text2)
        total == Len(a) + Len(b)
        matches == matching_size(a, b, 1, Len(a), 1, Len(b))
    IN  IF total = 0 THEN TRUE
        ELSE 2 * matches * den >= num * total

\* title_similarity_threshold = 0.8 = 4 / 5
ThresholdNum == 4
ThresholdDen == 5

calculate_similarity_ge_threshold(text1, text2) ==
    SimilarAtLeast(text1, text2, ThresholdNum, ThresholdDen)

-----------------------------------------------------------------------------
(* The history file and its records *)

\* a seen_at value of a record: an ISO string with an offset ("aware"), an
\* ISO string without one ("naive"), a string fromisoformat rejects
\* ("invalid"), an absent, null or otherwise falsy value ("none"), or a truthy
\* value that is no string, such as a number ("nonstr")
SeenAt(kind, t) == [kind |-> kind, t |-> t]

\* an element of the "articles" array: a JSON object with its url, title and
\* seen_at, or an element that is no object
Entry(url, title, seen_at) ==
    [isdict |-> TRUE, url |-> url, title |-> title, seen_at |-> seen_at]
NonDictEntry ==
    [isdict |-> FALSE, url |-> NoUrl, title |-> NoTitle, seen_at |-> SeenAt("none", 0)]

\* the file: kind is
\*   "missing"    no file at the path
\*   "notjson"    content json.loads rejects
\*   "partial"    a file opened for writing and not yet written in full (it
\*                holds a prefix of a document, which json.loads rejects)
\*   "notutf8"    bytes that are no UTF-8 text
\*   "scalar"     a JSON value that is neither an object nor an array
\*   "nullarts"   a JSON object whose "articles" is null
\*   "dict"       a JSON object whose "articles" is the array `articles`
\*   "list"       a JSON array, `articles`
File(kind, articles) == [kind |-> kind, articles |-> articles]

\* the result of a computation that may raise
Ok(v) == [ok |-> TRUE, val |-> v]
Raised == [ok |-> FALSE, val |-> <<>>]

\* _read_history(path)
read_history(f) ==
    CASE f.kind = "missing" -> Ok(<<>>)
      [] f.kind \in {"notjson", "partial"} -> Ok(<<>>)
      [] f.kind = "notutf8" -> Raised
      [] f.kind = "scalar" -> Ok(<<>>)
      [] f.kind = "nullarts" -> Raised
      [] OTHER -> Ok(SelectSeq(f.articles, LAMBDA r : r.isdict))

\* _parse_seen_at(value): the day, or Raised where fromisoformat raises
\* TypeError on a value that is no string
parse_seen_at(v) ==
    CASE v.kind = "none" -> Ok(0)
      [] v.kind = "invalid" -> Ok(0)
      [] v.kind = "nonstr" -> Raised
      [] OTHER -> Ok(v.t)

\* a prune that compares against the epoch instead of the cutoff, so that
\* it drops nothing
prune_KeepsExpired(records, cutoff) ==
    IF \E i \in DOMAIN records : ~parse_seen_at(records[i].seen_at).ok
    THEN Raised
    ELSE Ok(SelectSeq(records,
                      LAMBDA r : parse_seen_at(r.seen_at).val >= 0))

\* [r for r in records if _parse_seen_at(r.get("seen_at")) >= cutoff]
prune(records, cutoff) ==
    IF \E i \in DOMAIN records : ~parse_seen_at(records[i].seen_at).ok
    THEN Raised
    ELSE Ok(SelectSeq(records,
                      LAMBDA r : parse_seen_at(r.seen_at).val >= cutoff))

\* bool(value) of a url field and of a title field
TruthyUrl(u) == u # NoUrl
TruthyTitle(t) == t # NoTitle

\* the titles of the records that have one, in file order
RECURSIVE TitlesOf(_)
TitlesOf(records) ==
    IF records = <<>> THEN <<>>
    ELSE IF TruthyTitle(Head(records).title)
         THEN <<Head(records).title>> \o TitlesOf(Tail(records))
         ELSE TitlesOf(Tail(records))

\* load_dedup_history(path, max_age_days) -> (seen_urls, seen_titles)
load_dedup_history(f, clock, max_age_days) ==
    LET records == read_history(f)
        cutoff == clock - max_age_days
        pruned == IF records.ok THEN prune(records.val, cutoff) ELSE Raised
    IN  IF ~pruned.ok THEN Raised
        ELSE Ok([seen_urls |-> {pruned.val[i].url : i \in
                                   {j \in DOMAIN pruned.val :
                                        TruthyUrl(pruned.val[j].url)}},
                 seen_titles |-> TitlesOf(pruned.val)])

\* the inner loop of filter_previously_seen and deduplicate_articles
IsTitleDuplicate(title, seen_titles) ==
    \E i \in DOMAIN seen_titles :
        calculate_similarity_ge_threshold(title, seen_titles[i])

\* filter_previously_seen(articles, seen_urls, seen_titles, 0.8)
filter_previously_seen(articles, seen_urls, seen_titles) ==
    SelectSeq(articles,
              LAMBDA a : /\ a.url \notin seen_urls
                         /\ ~IsTitleDuplicate(a.title, seen_titles))

\* the loop of record_seen_articles with no test of existing_urls
AppendNew_Always(records, articles, clock) ==
    records \o [i \in DOMAIN articles |->
                  Entry(articles[i].url, articles[i].title, SeenAt("aware", clock))]

\* the loop of record_seen_articles: append a record for every article whose
\* url is not yet among the records
RECURSIVE AppendNew(_, _, _)
AppendNew(records, articles, clock) ==
    IF articles = <<>> THEN records
    ELSE LET a == Head(articles)
             existing_urls == {records[i].url : i \in
                                  {j \in DOMAIN records : TruthyUrl(records[j].url)}}
         IN  IF a.url \in existing_urls
             THEN AppendNew(records, Tail(articles), clock)
             ELSE AppendNew(Append(records,
                                   Entry(a.url, a.title, SeenAt("aware", clock))),
                            Tail(articles), clock)

\* record_seen_articles up to its call of _write_history: the records to write
record_seen_articles(articles, f, clock, max_age_days) ==
    LET records == read_history(f)
        cutoff == clock - max_age_days
        pruned == IF records.ok THEN prune(records.val, cutoff) ELSE Raised
    IN  IF ~pruned.ok THEN Raised
        ELSE Ok(AppendNew(pruned.val, articles, clock))

\* _write_history's payload {"version": 1, "articles": records}
payload(records) == File("dict", records)

-----------------------------------------------------------------------------
(* Articles and the filter pipeline of filter_node *)

\* published_at: the day, and whether the datetime carries a tzinfo
PublishedAt(t, aware) == [t |-> t, aware |-> aware]

\* an Article: str(url), title, source (a tuple of words), published_at and
\* len(content)
Article(url, title, source, published_at, content_len) ==
    [url |-> url, title |-> title, source |-> source,
     published_at |-> published_at, content_len |-> content_len]

\* settings.article_age_hours, 24 hours, in days
article_age_days == 1

\* settings.min_content_length
min_content_length == 100

\* _coerce_utc(value): a naive datetime is read as UTC
coerce_utc(p) == p.t

\* source_key in article.source, on tuples of words
IsSubstring(key, source) ==
    \E i \in 0..(Len(source) - Len(key)) :
        \A k \in 1..Len(key) : source[i + k] = key[k]

\* the source_priority dict of priority_sort, in its insertion order
SourcePriority ==
    << [key |-> <<"OpenAI", "Blog">>, priority |-> 100],
       [key |-> <<"Anthropic", "Blog">>, priority |-> 100],
       [key |-> <<"Google", "AI", "Blog">>, priority |-> 95],
       [key |-> <<"DeepMind", "Blog">>, priority |-> 95],
       [key |-> <<"GitHub">>, priority |-> 80],
       [key |-> <<"HackerNews">>, priority |-> 70],
       [key |-> <<"ArXiv">>, priority |-> 60] >>

\* the priority of sources that match no key
DefaultPriority == 50

\* the priority priority_sort finds: that of the first key the source contains
source_priority(source) ==
    LET hits == {i \in DOMAIN SourcePriority :
                    IsSubstring(SourcePriority[i].key, source)}
    IN  IF hits = {} THEN DefaultPriority
        ELSE SourcePriority[CHOOSE i \in hits : \A j \in hits : i <= j].priority

\* a sort key that puts the lowest priority first
priority_sort_LowestFirst(a) ==
    [p |-> source_priority(a.source), t |-> a.published_at.t,
     aware |-> a.published_at.aware]

\* priority_sort(article): the sort key (-priority, article.published_at)
priority_sort(a) ==
    [p |-> 0 - source_priority(a.source), t |-> a.published_at.t,
     aware |-> a.published_at.aware]

\* key1 < key2 on the tuples: the priorities decide unless they are equal,
\* and then the datetimes are compared, which raises TypeError when one is
\* naive and the other aware
KeyLtRaises(x, y) == x.p = y.p /\ x.aware # y.aware
KeyLt(x, y) == x.p < y.p \/ (x.p = y.p /\ x.t < y.t)

ArtLtRaises(a, b) == KeyLtRaises(priority_sort(a), priority_sort(b))
ArtLt(a, b) == KeyLt(priority_sort(a), priority_sort(b))

Reverse(s) == [i \in DOMAIN s |-> s[Len(s) + 1 - i]]

\* list.sort's count_run: the length of the run that starts the list, which
\* is ascending, or strictly descending when desc
RECURSIVE count_run(_, _, _)
count_run(s, k, desc) ==
    IF k > Len(s) THEN Ok(k - 1)
    ELSE IF ArtLtRaises(s[k], s[k - 1]) THEN Raised
    ELSE IF ArtLt(s[k], s[k - 1]) = desc THEN count_run(s, k + 1, desc)
    ELSE Ok(k - 1)

\* list.sort's binarysort: where the pivot goes in the sorted prefix
RECURSIVE binary_search(_, _, _, _)
binary_search(sorted, pivot, l, r) ==
    IF l >= r THEN Ok(l)
    ELSE LET p == l + ((r - l) \div 2)
         IN  IF ArtLtRaises(pivot, sorted[p]) THEN Raised
             ELSE IF ArtLt(pivot, sorted[p])
                  THEN binary_search(sorted, pivot, l, p)
                  ELSE binary_search(sorted, pivot, p + 1, r)

RECURSIVE binarysort(_, _)
binarysort(sorted, rest) ==
    IF rest = <<>> THEN Ok(sorted)
    ELSE LET pos == binary_search(sorted, Head(rest), 1, Len(sorted) + 1)
         IN  IF ~pos.ok THEN Raised
             ELSE binarysort(SubSeq(sorted, 1, pos.val - 1) \o <<Head(rest)>>
                               \o SubSeq(sorted, pos.val, Len(sorted)),
                             Tail(rest))

\* sorted(deduplicated, key=priority_sort) for a list shorter than 64: the
\* first run, reversed when descending, then binary insertion of the rest
sorted_by_priority(s) ==
    IF Len(s) < 2 THEN Ok(s)
    ELSE IF ArtLtRaises(s[2], s[1]) THEN Raised
    ELSE LET desc == ArtLt(s[2], s[1])
             n_run == count_run(s, 3, desc)
         IN  IF ~n_run.ok THEN Raised
             ELSE binarysort(IF desc THEN Reverse(SubSeq(s, 1, n_run.val))
                                     ELSE SubSeq(s, 1, n_run.val),
                             SubSeq(s, n_run.val + 1, Len(s)))

\* deduplicate_articles(articles): keep an article unless its url or a
\* similar title was kept before
RECURSIVE dedup_loop(_, _, _, _)
dedup_loop(articles, seen_urls, seen_titles, unique_articles) ==
    IF articles = <<>> THEN unique_articles
    ELSE LET a == Head(articles)
         IN  IF a.url \in seen_urls \/ IsTitleDuplicate(a.title, seen_titles)
             THEN dedup_loop(Tail(articles), seen_urls, seen_titles, unique_articles)
             ELSE dedup_loop(Tail(articles), seen_urls \cup {a.url},
                             Append(seen_titles, a.title),
                             Append(unique_articles, a))

deduplicate_articles(articles) == dedup_loop(articles, {}, <<>>, <<>>)

\* a cap that is off by one: sorted_articles[:max_articles + 1]
cap_OffByOne(sorted_articles, max_articles) ==
    SubSeq(sorted_articles, 1, Min(max_articles + 1, Len(sorted_articles)))

\* sorted_articles[:max_articles]
cap(sorted_articles, max_articles) ==
    SubSeq(sorted_articles, 1, Min(max_articles, Len(sorted_articles)))

\* the stages of filter_node before the sort with no content length filter
deduplicated_of_AnyLength(raw_articles, seen, clock) ==
    LET cutoff_time == clock - article_age_days
        time_filtered == SelectSeq(raw_articles,
                            LAMBDA a : coerce_utc(a.published_at) >= cutoff_time)
        history_filtered == filter_previously_seen(time_filtered,
                                seen.seen_urls, seen.seen_titles)
    IN  deduplicate_articles(history_filtered)

\* the stages of filter_node before the sort: age, content length, history
\* and deduplication within the batch
deduplicated_of(raw_articles, seen, clock) ==
    LET cutoff_time == clock - article_age_days
        time_filtered == SelectSeq(raw_articles,
                            LAMBDA a : coerce_utc(a.published_at) >= cutoff_time)
        content_filtered == SelectSeq(time_filtered,
                            LAMBDA a : a.content_len >= min_content_length)
        history_filtered == filter_previously_seen(content_filtered,
                                seen.seen_urls, seen.seen_titles)
    IN  deduplicate_articles(history_filtered)

\* filter_node(state): filtered_articles, or Raised when load_dedup_history or
\* the sort raises
filter_node(raw_articles, max_articles, f, clock) ==
    LET seen == load_dedup_history(f, clock, dedup_history_days)
    IN  IF ~seen.ok THEN Raised
        ELSE LET sorted_articles ==
                     sorted_by_priority(deduplicated_of(raw_articles, seen.val, clock))
             IN  IF ~sorted_articles.ok THEN Raised
                 ELSE Ok(cap(sorted_articles.val, max_articles))

-----------------------------------------------------------------------------
(* The BriefState and the settings *)

NoReport == [present |-> FALSE, items |-> <<>>]

\* initial_state of run_daily_brief
InitialState(max_articles) ==
    [max_articles |-> max_articles,
     raw_articles |-> <<>>,
     filtered_articles |-> <<>>,
     analyzed_articles |-> <<>>,
     deep_analyses |-> <<>>,
     report |-> NoReport,
     report_path |-> "None",
     telegram_message_id |-> "None",
     errors |-> <<>>]

\* the score scale of AnalysisResult and of the two thresholds: ge=0, le=10
MaxScore == 10

\* Settings: the fields the nodes read
Settings(max_total, min_importance, min_relevance) ==
    [max_total_articles |-> max_total,
     min_importance_score |-> min_importance,
     min_ai_relevance_score |-> min_relevance]

\* the values Settings.min_importance_score accepts: ge=0, le=10
MinImportanceRange == 0..MaxScore

\* the values Settings.min_ai_relevance_score accepts
MinRelevanceRange == 0..MaxScore

DefaultSettings == Settings(1, 5, 5)

NoLocal ==
    [telegram_message_id |-> "None", report_path |-> "None", errors |-> <<>>,
     send_attempts |-> 0, error_notifications |-> 0]

\* the workflow is not running
PipelineIdle ==
    /\ pc = "idle"
    /\ state = InitialState(1)
    /\ cfg = DefaultSettings
    /\ run = 0
    /\ local = NoLocal
    /\ file0 = File("missing", <<>>)

\* no analyze_batch is running
AnalyzerIdle ==
    /\ calls = <<>>
    /\ results = <<>>
    /\ batch_lo = 0

-----------------------------------------------------------------------------
(* The history store on its own: load and record calls of one process after *)
(* another, on a file of any content, while the days pass                    *)

\* an article as the history store sees it: str(article.url), article.title
Item(url, title) == [url |-> url, title |-> title]

\* the article lists passed to record_seen_articles: none, one article, two
\* articles, two articles with one url, the same article twice
ItemLists ==
    { <<>>,
      <<Item("u1", TitleGpt)>>,
      <<Item("u3", TitleEmpty)>>,
      <<Item("u1", TitleGpt), Item("u3", TitleLlm)>>,
      <<Item("u1", TitleGpt), Item("u1", TitleLlm)>>,
      <<Item("u2", TitleGPT5), Item("u2", TitleGPT5)>> }

\* the records a history file may hold when the model starts
EntryPool ==
    { Entry("u1", TitleGpt, SeenAt("aware", Day0 - 1)),
      Entry("u2", TitleLlm, SeenAt("aware", Day0 - dedup_history_days - 1)),
      Entry("u1", TitleLlm, SeenAt("naive", Day0 - dedup_history_days)),
      Entry("u3", NoTitle, SeenAt("invalid", 0)),
      Entry(NoUrl, TitleGPT5, SeenAt("none", 0)),
      Entry("u2", TitleGpt, SeenAt("nonstr", 0)),
      NonDictEntry }

\* at most this many records in the file the model starts with
MaxHist == 1

InitFiles ==
    { File(k, <<>>) : k \in {"missing", "notjson", "notutf8", "scalar", "nullarts"} }
    \cup { File("dict", rs) : rs \in SeqsUpTo(EntryPool, MaxHist) }
    \cup { File("list", rs) : rs \in SeqsUpTo(EntryPool, 1) }

NothingPending == [doc |-> <<>>, read |-> <<>>]

NothingWritten == [doc |-> <<>>, read |-> <<>>, at |-> 0]

NotLoaded == [status |-> "none", seen_urls |-> {}, seen_titles |-> <<>>, at |-> 0]

HInit ==
    /\ file \in InitFiles
    /\ now = Day0
    /\ hpc = "idle"
    /\ pending = NothingPending
    /\ rec_items = <<>>
    /\ loaded = NotLoaded
    /\ recorded = {}
    /\ last_record = "none"
    /\ n_records = 0
    /\ written = NothingWritten
    /\ PipelineIdle
    /\ AnalyzerIdle

\* a day passes between two calls
Tick ==
    /\ hpc = "idle"
    /\ now < Day0 + MaxClock
    /\ now' = now + 1
    /\ UNCHANGED <<file, hpc, pending, rec_items, loaded, recorded, last_record,
                   n_records, written>>

\* a call of load_dedup_history(path, dedup_history_days)
Load ==
    /\ hpc = "idle"
    /\ LET r == load_dedup_history(file, now, dedup_history_days)
       IN  loaded' = IF r.ok
                     THEN [status |-> "ok", seen_urls |-> r.val.seen_urls,
                           seen_titles |-> r.val.seen_titles, at |-> now]
                     ELSE [NotLoaded EXCEPT !.status = "raised", !.at = now]
    /\ UNCHANGED <<file, now, hpc, pending, rec_items, recorded, last_record,
                   n_records, written>>

\* record_seen_articles(articles, path, dedup_history_days) up to the point
\* where write_text has opened the file for writing, which truncates it; the
\* call ends here when reading the records raises
RecordBegin(articles) ==
    /\ hpc = "idle"
    /\ n_records < MaxRecords
    /\ n_records' = n_records + 1
    /\ loaded' = NotLoaded
    /\ LET r == record_seen_articles(articles, file, now, dedup_history_days)
       IN  IF r.ok
           THEN /\ file' = File("partial", <<>>)
                /\ hpc' = "opened"
                /\ pending' = [doc |-> r.val, read |-> read_history(file).val]
                /\ rec_items' = articles
                /\ UNCHANGED last_record
           ELSE /\ last_record' = "raised"
                /\ UNCHANGED <<file, hpc, pending, rec_items>>
    /\ UNCHANGED <<now, recorded, written>>

\* the same call when mkdir or the open of write_text raises OSError: the
\* file is as it was
RecordOpenFails(articles) ==
    /\ hpc = "idle"
    /\ n_records < MaxRecords
    /\ n_records' = n_records + 1
    /\ loaded' = NotLoaded
    /\ last_record' = "raised"
    /\ UNCHANGED <<file, now, hpc, pending, rec_items, recorded, written>>

\* write_text writes the document and closes the file: the call completes
WriteData ==
    /\ hpc = "opened"
    /\ file' = payload(pending.doc)
    /\ written' = [doc |-> pending.doc, read |-> pending.read, at |-> now]
    /\ recorded' = recorded \cup
           { [url |-> rec_items[i].url, title |-> rec_items[i].title, at |-> now,
              run |-> run]
               : i \in DOMAIN rec_items }
    /\ last_record' = "ok"
    /\ hpc' = "idle"
    /\ pending' = NothingPending
    /\ rec_items' = <<>>
    /\ UNCHANGED <<now, loaded, n_records>>

\* the write raises OSError part-way (a full disk): the call raises and the
\* file keeps what was written so far
WriteFails ==
    /\ hpc = "opened"
    /\ last_record' = "raised"
    /\ hpc' = "idle"
    /\ pending' = NothingPending
    /\ rec_items' = <<>>
    /\ UNCHANGED <<file, now, loaded, recorded, n_records, written>>

\* the process is killed between the open and the end of the write
Crash ==
    /\ hpc = "opened"
    /\ last_record' = "crashed"
    /\ hpc' = "idle"
    /\ pending' = NothingPending
    /\ rec_items' = <<>>
    /\ UNCHANGED <<file, now, loaded, recorded, n_records, written>>

HTick == Tick /\ UNCHANGED <<pvars, avars>>
HLoad == Load /\ UNCHANGED <<pvars, avars>>
HRecordBegin ==
    /\ \E articles \in ItemLists : RecordBegin(articles)
    /\ UNCHANGED <<pvars, avars>>
HRecordOpenFails ==
    /\ \E articles \in ItemLists : RecordOpenFails(articles)
    /\ UNCHANGED <<pvars, avars>>
HWriteData == WriteData /\ UNCHANGED <<pvars, avars>>
HWriteFails == WriteFails /\ UNCHANGED <<pvars, avars>>
HCrash == Crash /\ UNCHANGED <<pvars, avars>>

HNext ==
    \/ HTick
    \/ HLoad
    \/ HRecordBegin
    \/ HRecordOpenFails
    \/ HWriteData
    \/ HWriteFails
    \/ HCrash

SpecHistory == HInit /\ [][HNext]_vars

-----------------------------------------------------------------------------
(* Claims about the history store, checked under SpecHistory *)

\* the records of the file as _read_history returns them (none when it raises)
FileRecords == read_history(file).val

\* the day of a record's seen_at (0 where it does not parse)
SeenDay(r) == IF parse_seen_at(r.seen_at).ok THEN parse_seen_at(r.seen_at).val ELSE 0

\* C5 (as claimed): every item passed to a record_seen_articles call that
\* completed is in seen_urls, and its title in seen_titles, for every load
\* made within dedup_history_days days after that call.
C5_RecordedItemsAreLoaded ==
    \A g \in recorded :
        (loaded.status # "none" /\ g.at <= loaded.at
           /\ loaded.at - g.at <= dedup_history_days)
        => /\ loaded.status = "ok"
           /\ g.url \in loaded.seen_urls
           /\ g.title \in Range(loaded.seen_titles)

\* C6: a record whose seen_at is older than now - max_age_days contributes
\* neither its url to seen_urls nor its title to seen_titles (each url and
\* title a load returns is carried by a record that is not older), and a
\* document written by record_seen_articles holds no such record.
C6_ExpiredRecordsArePruned ==
    /\ loaded.status = "ok" =>
         LET cutoff == loaded.at - dedup_history_days
             fresh == {i \in DOMAIN FileRecords : SeenDay(FileRecords[i]) >= cutoff}
         IN  /\ \A u \in loaded.seen_urls : \E i \in fresh : FileRecords[i].url = u
             /\ \A k \in DOMAIN loaded.seen_titles :
                    \E i \in fresh : FileRecords[i].title = loaded.seen_titles[k]
    /\ hpc = "opened" =>
         \A i \in DOMAIN pending.doc :
             SeenDay(pending.doc[i]) >= now - dedup_history_days
    /\ (written.at > 0 /\ file = payload(written.doc)) =>
         \A i \in DOMAIN file.articles :
             SeenDay(file.articles[i]) >= written.at - dedup_history_days

\* C6 witness: a record call read a file holding an expired record with a url
\* and a title, wrote its document, and a later load returned neither
C6_Witness ==
    /\ written.at > 0
    /\ file = payload(written.doc)
    /\ loaded.status = "ok"
    /\ \E i \in DOMAIN written.read :
          /\ SeenDay(written.read[i]) < written.at - dedup_history_days
          /\ TruthyUrl(written.read[i].url)
          /\ TruthyTitle(written.read[i].title)
          /\ written.read[i].url \notin loaded.seen_urls
          /\ written.read[i].title \notin Range(loaded.seen_titles)

\* C9 (as claimed): load_dedup_history never raises, whatever the file holds.
C9_LoadNeverRaises == loaded.status # "raised"

\* C10 (as claimed): whenever no write is in progress the file holds a whole
\* document (the previous one or the new one), also after a write that failed
\* part-way or a process that was killed.
C10_FileIsNeverPartial == hpc = "idle" => file.kind # "partial"

\* no two of the records carry the same url
UniqueUrls(records) ==
    \A i, j \in DOMAIN records :
        (i # j /\ TruthyUrl(records[i].url)) => records[i].url # records[j].url

\* C29 (as claimed): a record_seen_articles call that read records with no
\* url twice writes records with no url twice, and a url that was among the
\* records read has in the document written the seen_at it had.
C29_UrlsStayUniqueAndKeepSeenAt ==
    (written.at > 0 /\ UniqueUrls(written.read)) =>
        /\ UniqueUrls(written.doc)
        /\ \A i \in DOMAIN written.read :
              TruthyUrl(written.read[i].url) =>
                  \A k \in DOMAIN written.doc :
                      written.doc[k].url = written.read[i].url =>
                          written.doc[k].seen_at = written.read[i].seen_at

\* C29 (amended): a record_seen_articles call that read records with no url
\* twice writes records with no url twice; a record read whose seen_at is
\* not before now - max_age_days is written as it was read, whether or not
\* its url is passed again; a record read that is older is dropped, and its
\* url, when passed again, is recorded anew with the time of the call.
C29_UrlsStayUniqueFreshKeepSeenAt ==
    (written.at > 0 /\ UniqueUrls(written.read)) =>
        /\ UniqueUrls(written.doc)
        /\ \A i \in DOMAIN written.read :
              LET r == written.read[i]
              IN  IF SeenDay(r) >= written.at - dedup_history_days
                  THEN /\ \E k \in DOMAIN written.doc : written.doc[k] = r
                       /\ TruthyUrl(r.url) =>
                              \A k \in DOMAIN written.doc :
                                  written.doc[k].url = r.url => written.doc[k] = r
                  ELSE \A k \in DOMAIN written.doc :
                          written.doc[k].url = r.url =>
                              written.doc[k].seen_at = SeenAt("aware", written.at)

\* C29 witness: a call that was passed twice a url whose record is a day
\* old wrote that record unchanged and no other record of the url
C29_Witness ==
    /\ written.at > 0
    /\ file = payload(written.doc)
    /\ \E i \in DOMAIN written.read :
          /\ written.read[i].url = "u1"
          /\ SeenDay(written.read[i]) = written.at - 1
          /\ Cardinality({k \in DOMAIN written.doc : written.doc[k].url = "u1"}) = 1
          /\ \E g \in recorded : g.url = "u1" /\ g.at = written.at

-----------------------------------------------------------------------------
(* filter_node on its own: one call on any list of fetched articles, any    *)
(* history file and any max_articles                                         *)

\* at most this many fetched articles
MaxRaw == 3
\* max_articles ranges over 1..MaxCap
MaxCap == 2

FilterPool ==
    { Article("u1", TitleGpt, <<"OpenAI", "Blog">>, PublishedAt(Day0, TRUE), 150),
      Article("u2", TitleGPT5, <<"HackerNews">>, PublishedAt(Day0 - 1, TRUE), 100),
      Article("u3", TitleLlm, <<"TechCrunch", "AI">>, PublishedAt(Day0, FALSE), 150),
      Article("u1", TitleLlm, <<"GitHub", "Tools">>, PublishedAt(Day0, TRUE), 80),
      Article("u2", TitleEmpty, <<"HackerNews">>, PublishedAt(Day0 - 2, TRUE), 150),
      Article("u5", TitleEmpty, <<"TechCrunch", "AI">>, PublishedAt(Day0 - 1, TRUE), 120),
      Article("u4", <<"x", "y">>, <<"HackerNews">>, PublishedAt(Day0, TRUE), 150) }

FilterFiles ==
    { File("missing", <<>>),
      File("nullarts", <<>>),
      File("dict", <<Entry("u1", TitleLlm, SeenAt("aware", Day0 - 1))>>),
      File("dict", <<Entry("u4", TitleGPT5,
                           SeenAt("aware", Day0 - dedup_history_days - 1))>>) }

FInit ==
    /\ file \in FilterFiles
    /\ now = Day0
    /\ hpc = "idle"
    /\ pending = NothingPending
    /\ rec_items = <<>>
    /\ loaded = NotLoaded
    /\ recorded = {}
    /\ last_record = "none"
    /\ n_records = 0
    /\ written = NothingWritten
    /\ pc = "filter"
    /\ \E raw \in SeqsUpTo(FilterPool, MaxRaw), max_articles \in 1..MaxCap :
          state = [InitialState(max_articles) EXCEPT !.raw_articles = raw]
    /\ cfg = DefaultSettings
    /\ run = 1
    /\ local = NoLocal
    /\ file0 = file
    /\ AnalyzerIdle

\* filter_node returns the state with filtered_articles set
FilterNode ==
    /\ pc = "filter"
    /\ LET r == filter_node(state.raw_articles, state.max_articles, file, now)
       IN  /\ r.ok
           /\ state' = [state EXCEPT !.filtered_articles = r.val]
    /\ pc' = "analyze"
    /\ UNCHANGED <<hvars, cfg, run, local, file0, avars>>

\* filter_node raises: the exception leaves the workflow and ends the run
FilterNodeRaises ==
    /\ pc = "filter"
    /\ ~filter_node(state.raw_articles, state.max_articles, file, now).ok
    /\ pc' = "failed"
    /\ UNCHANGED <<hvars, state, cfg, run, local, file0, avars>>

FNext == FilterNode \/ FilterNodeRaises

SpecFilter == FInit /\ [][FNext]_vars

\* C2: filtered_articles never holds more than max_articles articles.
C2_CardinalityBound ==
    Len(state.filtered_articles) <= state.max_articles

\* C2 witness: filter_node returned, with more articles left after
\* deduplication than max_articles allows and max_articles of them kept
C2_Witness ==
    /\ pc = "analyze"
    /\ load_dedup_history(file, now, dedup_history_days).ok
    /\ Len(deduplicated_of(state.raw_articles,
                           load_dedup_history(file, now, dedup_history_days).val,
                           now)) > state.max_articles
    /\ Len(state.filtered_articles) = state.max_articles

\* C21: every article of filtered_articles is one of raw_articles, unaltered,
\* with content of at least min_content_length characters and a published_at
\* that, read as UTC when naive, is not before now - article_age_hours; an
\* article of raw_articles with shorter content is never in filtered_articles.
C21_FilterOnlyNarrows ==
    (pc = "analyze") =>
        /\ \A i \in DOMAIN state.filtered_articles :
              LET a == state.filtered_articles[i]
              IN  /\ \E j \in DOMAIN state.raw_articles : state.raw_articles[j] = a
                  /\ a.content_len >= min_content_length
                  /\ a.published_at.t >= now - article_age_days
        /\ \A j \in DOMAIN state.raw_articles :
              state.raw_articles[j].content_len < min_content_length =>
                  \A i \in DOMAIN state.filtered_articles :
                      state.filtered_articles[i] # state.raw_articles[j]

\* C21 witness: filter_node returned; it kept an article with a naive
\* published_at, and dropped a fresh article of a higher source priority
\* whose content is too short and an article that is too old
C21_Witness ==
    /\ pc = "analyze"
    /\ \E i \in DOMAIN state.filtered_articles :
          ~state.filtered_articles[i].published_at.aware
    /\ \E j \in DOMAIN state.raw_articles :
          /\ state.raw_articles[j].content_len < min_content_length
          /\ state.raw_articles[j].published_at.t = now
          /\ source_priority(state.raw_articles[j].source) > DefaultPriority
    /\ \E j \in DOMAIN state.raw_articles :
          /\ state.raw_articles[j].published_at.t < now - article_age_days
          /\ state.raw_articles[j].content_len >= min_content_length
    /\ Len(state.filtered_articles) = 1

\* C25: filtered_articles is ordered by source priority from the highest to
\* the lowest, and of two articles of equal source priority the one with
\* the more recent published_at comes first.
C25_PriorityThenMostRecentFirst ==
    (pc = "analyze") =>
        \A i, j \in DOMAIN state.filtered_articles :
            i < j =>
                LET a == state.filtered_articles[i]
                    b == state.filtered_articles[j]
                IN  \/ source_priority(a.source) > source_priority(b.source)
                    \/ /\ source_priority(a.source) = source_priority(b.source)
                       /\ a.published_at.t >= b.published_at.t

\* the articles left after deduplication in the call of filter_node that
\* returned
Deduplicated ==
    deduplicated_of(state.raw_articles,
                    load_dedup_history(file, now, dedup_history_days).val, now)

\* C26: when more than max_articles articles are left after deduplication,
\* no article cut by the cap has a strictly higher source priority than an
\* article kept in filtered_articles.
C26_CapKeepsHighestPriority ==
    (pc = "analyze" /\ Len(Deduplicated) > state.max_articles) =>
        \A c \in Range(Deduplicated) \ Range(state.filtered_articles) :
            \A k \in Range(state.filtered_articles) :
                source_priority(c.source) <= source_priority(k.source)

\* C26 witness: the cap cut an article that came before a kept one in
\* raw_articles and has a lower source priority
C26_Witness ==
    /\ pc = "analyze"
    /\ Len(Deduplicated) > state.max_articles
    /\ Len(state.filtered_articles) = state.max_articles
    /\ \E i, j \in DOMAIN state.raw_articles :
          /\ i < j
          /\ state.raw_articles[i] \in Range(Deduplicated) \ Range(state.filtered_articles)
          /\ state.raw_articles[j] \in Range(state.filtered_articles)
          /\ source_priority(state.raw_articles[i].source)
                < source_priority(state.raw_articles[j].source)

-----------------------------------------------------------------------------
(* LLMAnalyzer: analyze, its retry, analyze_batch; and analyze_node          *)

\* stop_after_attempt(4): a call of the LLM is attempted at most four times
MaxAttempts == 4
\* analyze_batch.batch_size, scaled down from 5
batch_size == 2
\* at most this many articles reach analyze_node
MaxFiltered == 3

\* the summary of the fallback result, and of a result the LLM gave
FallbackSummary == "analysis failed"
LlmSummary == "summary"

\* AnalysisResult: the article, the two scores and the summary
AnalysisResult(article, importance_score, ai_relevance_score, summary) ==
    [article |-> article,
     importance_score |-> importance_score,
     ai_relevance_score |-> ai_relevance_score,
     summary |-> summary]

\* the result analyze returns from its except branch
fallback(article) == AnalysisResult(article, 0, 0, FallbackSummary)

\* the text of an LLM response: JSON with every field ("json"), JSON with no
\* ai_relevance_score ("norelevance"), JSON with no importance_score
\* ("noimportance"), JSON whose importance_score is a string ("badtype"),
\* not JSON at all ("notjson")
Response(kind, importance_score, ai_relevance_score) ==
    [kind |-> kind,
     importance_score |-> importance_score,
     ai_relevance_score |-> ai_relevance_score]

Responses ==
    { Response("json", 0 - 3, 7),
      Response("json", 12, 12),
      Response("json", 8, 0),
      Response("norelevance", 5, 0),
      Response("noimportance", 0, 9),
      Response("badtype", 8, 8),
      Response("notjson", 0, 0) }

\* _parse_response: the analysis data, or Raised
parse_response(response) ==
    IF response.kind \in {"notjson", "noimportance"} THEN Raised
    ELSE Ok([importance_score |-> response.importance_score,
             importance_is_int |-> response.kind # "badtype",
             ai_relevance_score |->
                 IF response.kind = "norelevance" THEN 5
                 ELSE response.ai_relevance_score])

\* the try block of analyze once the LLM has answered: parse, clamp both
\* scores into 0..10, build the AnalysisResult; Raised when parsing raises or
\* max(0, importance_score) compares an int with a string
analyze_try(article, response) ==
    LET analysis_data == parse_response(response)
    IN  IF ~analysis_data.ok THEN Raised
        ELSE IF ~analysis_data.val.importance_is_int THEN Raised
        ELSE Ok(AnalysisResult(article,
                    Min(MaxScore, Max(0, analysis_data.val.importance_score)),
                    Min(MaxScore, Max(0, analysis_data.val.ai_relevance_score)),
                    LlmSummary))

\* the except branch of analyze, left out
analyze_except_Reraises(article, attempt) == attempt

\* the except branch of analyze: whatever the try block raised, the fallback
\* result is returned
analyze_except(article, attempt) ==
    IF attempt.ok THEN attempt ELSE Ok(fallback(article))

\* analyze(article) when the LLM answers with response
analyze(article, response) == analyze_except(article, analyze_try(article, response))

\* analyze(article) when _ainvoke_with_retry raises
analyze_llm_raised(article) == analyze_except(article, Raised)

\* one analyze() call of the running batch: attempts counts the attempts of
\* the retry loop while the call is pending (the loop's state is gone once
\* the call has returned), cause tells how the call ended
Call(status, attempts, result, cause) ==
    [status |-> status, attempts |-> attempts, result |-> result, cause |-> cause]

NoResult == Raised

\* one gather for all the articles after index lo
StartBatch_All(articles, lo) ==
    [k \in 1..(Len(articles) - lo) |-> Call("pending", 0, NoResult, "none")]

\* the calls asyncio.gather starts for the batch that begins after index lo
StartBatch(articles, lo) ==
    [k \in 1..Min(batch_size, Len(articles) - lo) |->
        Call("pending", 0, NoResult, "none")]

\* the filter by importance_score with > in place of >=
filtered_by_importance_Strict(analyzed_articles, min_importance_score) ==
    SelectSeq(analyzed_articles,
              LAMBDA a : a.importance_score > min_importance_score)

\* analyze_node: the filter by minimum importance score
filtered_by_importance(analyzed_articles, min_importance_score) ==
    SelectSeq(analyzed_articles,
              LAMBDA a : a.importance_score >= min_importance_score)

\* analyze_node: the filter by minimum AI relevance score
filtered_by_relevance(analyzed_articles, min_ai_relevance_score) ==
    SelectSeq(analyzed_articles,
              LAMBDA a : a.ai_relevance_score >= min_ai_relevance_score)

\* analyze_node: filtered_by_score
filtered_by_score(analyzed_articles, settings) ==
    filtered_by_relevance(
        filtered_by_importance(analyzed_articles, settings.min_importance_score),
        settings.min_ai_relevance_score)

-----------------------------------------------------------------------------
(* analyze_node on its own: one call on any list of filtered articles under *)
(* any accepted thresholds, the LLM answering each call in any way           *)

AnalyzePool ==
    << Article("u1", TitleGpt, <<"OpenAI", "Blog">>, PublishedAt(Day0, TRUE), 150),
       Article("u2", TitleGPT5, <<"HackerNews">>, PublishedAt(Day0, TRUE), 150),
       Article("u3", TitleLlm, <<"ArXiv">>, PublishedAt(Day0, TRUE), 150),
       Article("u4", TitleEmpty, <<"GitHub">>, PublishedAt(Day0, TRUE), 150),
       Article("u5", <<"x", "y">>, <<"TechCrunch">>, PublishedAt(Day0, TRUE), 150) >>

\* the history store is not in use
HistoryIdle ==
    /\ file = File("missing", <<>>)
    /\ now = Day0
    /\ hpc = "idle"
    /\ pending = NothingPending
    /\ rec_items = <<>>
    /\ loaded = NotLoaded
    /\ recorded = {}
    /\ last_record = "none"
    /\ n_records = 0
    /\ written = NothingWritten

AInit ==
    /\ HistoryIdle
    /\ pc = "analyze"
    /\ \E n \in 0..MaxFiltered :
          state = [InitialState(MaxFiltered) EXCEPT
                      !.filtered_articles = SubSeq(AnalyzePool, 1, n)]
    /\ \E i \in MinImportanceRange, r \in MinRelevanceRange :
          cfg = Settings(MaxFiltered, i, r)
    /\ run = 1
    /\ local = NoLocal
    /\ file0 = file
    /\ AnalyzerIdle

\* analyze_node with no filtered article: the LLM is not called
AnalyzeNodeEmpty ==
    /\ pc = "analyze"
    /\ state.filtered_articles = <<>>
    /\ state' = [state EXCEPT !.analyzed_articles = <<>>]
    /\ pc' = "deep_analyze"
    /\ UNCHANGED <<calls, results, batch_lo>>

\* analyze_node calls analyze_batch, which starts the analyze() calls of the
\* first batch
AnalyzeNodeBegin ==
    /\ pc = "analyze"
    /\ state.filtered_articles # <<>>
    /\ results' = <<>>
    /\ batch_lo' = 0
    /\ calls' = StartBatch(state.filtered_articles, 0)
    /\ pc' = "analyzing"
    /\ UNCHANGED state

\* the LLM answers call k: analyze parses the response and returns
LLMResponds(k, response) ==
    /\ pc = "analyzing"
    /\ calls[k].status = "pending"
    /\ LET article == state.filtered_articles[batch_lo + k]
       IN  calls' = [calls EXCEPT ![k] =
               Call("done", 0, analyze(article, response),
                    IF analyze_try(article, response).ok
                    THEN "scored" ELSE "unparseable")]
    /\ UNCHANGED <<pc, state, results, batch_lo>>

\* the LLM answers call k with a rate limit error: _ainvoke_with_retry tries
\* again, or re-raises once MaxAttempts attempts were made
LLMRateLimited(k) ==
    /\ pc = "analyzing"
    /\ calls[k].status = "pending"
    /\ LET article == state.filtered_articles[batch_lo + k]
       IN  calls' = [calls EXCEPT ![k] =
               IF calls[k].attempts + 1 < MaxAttempts
               THEN Call("pending", calls[k].attempts + 1, NoResult, "none")
               ELSE Call("done", 0, analyze_llm_raised(article), "exhausted")]
    /\ UNCHANGED <<pc, state, results, batch_lo>>

\* the LLM call of call k raises an error that is not a rate limit
LLMFails(k) ==
    /\ pc = "analyzing"
    /\ calls[k].status = "pending"
    /\ LET article == state.filtered_articles[batch_lo + k]
       IN  calls' = [calls EXCEPT ![k] =
               Call("done", 0, analyze_llm_raised(article), "error")]
    /\ UNCHANGED <<pc, state, results, batch_lo>>

\* the results of a gather taken from the last call to the first
Gathered_Reversed(cs) ==
    LET done == SelectSeq(cs, LAMBDA c : c.result.ok)
    IN  [k \in DOMAIN done |-> done[Len(done) + 1 - k].result.val]

\* what analyze_batch appends after a gather: the AnalysisResults, not the
\* exceptions
Gathered(cs) ==
    LET done == SelectSeq(cs, LAMBDA c : c.result.ok)
    IN  [k \in DOMAIN done |-> done[k].result.val]

AllDone == \A k \in DOMAIN calls : calls[k].status = "done"

\* gather returns and another batch follows
BatchNext ==
    /\ pc = "analyzing"
    /\ AllDone
    /\ batch_lo + batch_size < Len(state.filtered_articles)
    /\ results' = results \o Gathered(calls)
    /\ batch_lo' = batch_lo + batch_size
    /\ calls' = StartBatch(state.filtered_articles, batch_lo + batch_size)
    /\ UNCHANGED <<pc, state>>

\* gather returns for the last batch: analyze_batch returns results and
\* analyze_node applies the two filters
AnalyzeNodeReturns ==
    /\ pc = "analyzing"
    /\ AllDone
    /\ batch_lo + batch_size >= Len(state.filtered_articles)
    /\ results' = results \o Gathered(calls)
    /\ state' = [state EXCEPT !.analyzed_articles =
                     filtered_by_score(results \o Gathered(calls), cfg)]
    /\ pc' = "deep_analyze"
    /\ UNCHANGED <<calls, batch_lo>>

ANext ==
    \/ AnalyzeNodeEmpty /\ UNCHANGED <<hvars, cfg, run, local, file0>>
    \/ AnalyzeNodeBegin /\ UNCHANGED <<hvars, cfg, run, local, file0>>
    \/ \E k \in DOMAIN calls, response \in Responses :
          LLMResponds(k, response) /\ UNCHANGED <<hvars, cfg, run, local, file0>>
    \/ \E k \in DOMAIN calls :
          LLMRateLimited(k) /\ UNCHANGED <<hvars, cfg, run, local, file0>>
    \/ \E k \in DOMAIN calls :
          LLMFails(k) /\ UNCHANGED <<hvars, cfg, run, local, file0>>
    \/ BatchNext /\ UNCHANGED <<hvars, cfg, run, local, file0>>
    \/ AnalyzeNodeReturns /\ UNCHANGED <<hvars, cfg, run, local, file0>>

SpecAnalyze == AInit /\ [][ANext]_vars

\* a result passes both thresholds of the settings
Passes(a) ==
    /\ a.importance_score >= cfg.min_importance_score
    /\ a.ai_relevance_score >= cfg.min_ai_relevance_score

\* C1: after analyze_node, a result of the analyzer is in analyzed_articles
\* if and only if importance_score >= min_importance_score and
\* ai_relevance_score >= min_ai_relevance_score, nothing else is admitted, and
\* applying the relevance filter before the importance filter gives the same
\* list.
C1_ThresholdAdmission ==
    pc = "deep_analyze" =>
        /\ \A i \in DOMAIN results :
              (results[i] \in Range(state.analyzed_articles)) <=> Passes(results[i])
        /\ Range(state.analyzed_articles) \subseteq Range(results)
        /\ state.analyzed_articles =
              filtered_by_importance(
                  filtered_by_relevance(results, cfg.min_ai_relevance_score),
                  cfg.min_importance_score)

\* C1 witness: analyze_node returned with one result admitted, one that
\* passes the importance threshold only and one that passes the relevance
\* threshold only
C1_Witness ==
    /\ pc = "deep_analyze"
    /\ state.analyzed_articles # <<>>
    /\ \E i, j \in DOMAIN results :
          /\ results[i].importance_score >= cfg.min_importance_score
          /\ results[i].ai_relevance_score < cfg.min_ai_relevance_score
          /\ results[j].importance_score < cfg.min_importance_score
          /\ results[j].ai_relevance_score >= cfg.min_ai_relevance_score

\* C3: every analyze() call returns a result for its own article and raises
\* nothing; when the LLM call failed (retries exhausted or another error) or
\* the response could not be parsed or validated the result is the fallback
\* with both scores 0; and every article of the batches gathered so far has
\* its result in results, in order.
C3_AnalyzeNeverRaises ==
    /\ \A k \in DOMAIN calls :
          calls[k].status = "done" =>
              /\ calls[k].result.ok
              /\ calls[k].result.val.article = state.filtered_articles[batch_lo + k]
              /\ calls[k].cause # "scored" =>
                    /\ calls[k].result.val.importance_score = 0
                    /\ calls[k].result.val.ai_relevance_score = 0
                    /\ calls[k].result.val.summary = FallbackSummary
    /\ pc = "analyzing" => Len(results) = batch_lo
    /\ pc = "deep_analyze" => Len(results) = Len(state.filtered_articles)
    /\ \A i \in DOMAIN results : results[i].article = state.filtered_articles[i]

\* C3 witness: in the last batch one call exhausted its four attempts and got
\* the fallback while another call of the same batch was scored by the LLM
C3_Witness ==
    /\ pc = "deep_analyze"
    /\ \E k, m \in DOMAIN calls :
          /\ calls[k].cause = "exhausted"
          /\ results[batch_lo + k] = fallback(state.filtered_articles[batch_lo + k])
          /\ calls[m].cause = "scored"
          /\ results[batch_lo + m].importance_score > 0
          /\ results[batch_lo + m].summary = LlmSummary

\* C4 (as claimed): whatever thresholds the settings accept, a fallback
\* result is never in analyzed_articles.
C4_FallbackNeverAdmitted ==
    \A i \in DOMAIN state.analyzed_articles :
        state.analyzed_articles[i].summary # FallbackSummary

-----------------------------------------------------------------------------
(* fetch_news_node on its own: any set of enabled sources, each fetcher     *)
(* returning a list of articles or raising                                   *)

\* source_configs: the names of the sources, in order
SourceNames ==
    << "RSS Feeds", "Reddit", "HackerNews", "ArXiv", "Official Blogs",
       "GitHub Releases", "X (Twitter)", "YouTube" >>

\* the article fetcher i returns when it finds one
SourceArticle(i) ==
    Article(SourceNames[i], <<"t", SourceNames[i]>>, <<SourceNames[i]>>,
            PublishedAt(Day0, TRUE), 150)

\* the index of a source name in source_configs
SourceIndex(name) == CHOOSE i \in DOMAIN SourceNames : SourceNames[i] = name

\* the enabled fetchers, in the order of source_configs
EnabledFetchers(enabled) ==
    LET idx == SelectSeq([i \in DOMAIN SourceNames |-> i], LAMBDA i : i \in enabled)
    IN  [k \in DOMAIN idx |-> SourceNames[idx[k]]]

\* what a source does in one run: it is disabled, or its fetcher raises,
\* returns no article, or returns its article
SourceOutcomes == {"disabled", "raises", "empty", "article"}

\* what asyncio.gather(..., return_exceptions=True) returns for the fetcher
\* of source name: a list of articles, or the exception it raised
FetcherResult(name, outcome) ==
    CASE outcome = "raises" -> Raised
      [] outcome = "empty" -> Ok(<<>>)
      [] outcome = "article" -> Ok(<<SourceArticle(SourceIndex(name))>>)

FetchError(source_name) == "Error fetching from " \o source_name

RECURSIVE fetch_collect_StopsAtFailure(_, _, _, _, _)
\* the collecting loop, giving up at the first fetcher that raised
fetch_collect_StopsAtFailure(fetchers, gathered, k, raw_articles, errors) ==
    IF k > Len(fetchers) THEN [raw_articles |-> raw_articles, errors |-> errors]
    ELSE IF gathered[k].ok
    THEN fetch_collect_StopsAtFailure(fetchers, gathered, k + 1,
                                      raw_articles \o gathered[k].val, errors)
    ELSE [raw_articles |-> raw_articles,
          errors |-> Append(errors, FetchError(fetchers[k]))]

\* the collecting loop of fetch_news_node from fetcher k on: a list extends
\* raw_articles, an exception appends one error
RECURSIVE fetch_collect(_, _, _, _, _)
fetch_collect(fetchers, gathered, k, raw_articles, errors) ==
    IF k > Len(fetchers) THEN [raw_articles |-> raw_articles, errors |-> errors]
    ELSE IF gathered[k].ok
    THEN fetch_collect(fetchers, gathered, k + 1,
                       raw_articles \o gathered[k].val, errors)
    ELSE fetch_collect(fetchers, gathered, k + 1,
                       raw_articles, Append(errors, FetchError(fetchers[k])))

\* the state fetch_news_node returns
FetchNodeResult(st, fetchers, gathered) ==
    LET c == fetch_collect(fetchers, gathered, 1, <<>>, st.errors)
    IN  [st EXCEPT !.raw_articles = c.raw_articles, !.errors = c.errors]

XInit ==
    /\ HistoryIdle
    /\ pc = "fetch"
    /\ cfg = DefaultSettings
    /\ state = InitialState(cfg.max_total_articles)
    /\ run = 1
    /\ local = NoLocal
    /\ file0 = file
    /\ AnalyzerIdle

\* fetch_news_node starts the enabled fetchers and gather returns their
\* results
FetchGather ==
    /\ pc = "fetch"
    /\ \E outcome \in [DOMAIN SourceNames -> SourceOutcomes] :
          LET fetchers == EnabledFetchers({i \in DOMAIN SourceNames :
                                              outcome[i] # "disabled"})
          IN  local' = [fetchers |-> fetchers,
                        results |-> [k \in DOMAIN fetchers |->
                            FetcherResult(fetchers[k],
                                          outcome[SourceIndex(fetchers[k])])]]
    /\ pc' = "fetch_collect"
    /\ UNCHANGED <<hvars, state, cfg, run, file0, avars>>

\* fetch_news_node collects the results and returns
FetchCollect ==
    /\ pc = "fetch_collect"
    /\ state' = FetchNodeResult(state, local.fetchers, local.results)
    /\ pc' = "filter"
    /\ UNCHANGED <<hvars, cfg, run, local, file0, avars>>

XNext == FetchGather \/ FetchCollect

SpecFetch == XInit /\ [][XNext]_vars

\* the fetchers of the last gather that returned a list with an article, and
\* those that raised
Succeeded == {k \in DOMAIN local.fetchers : local.results[k].ok}
Failed == {k \in DOMAIN local.fetchers : ~local.results[k].ok}

\* C15: whatever fetchers raise, fetch_news_node completes; raw_articles holds
\* every article of every fetcher that returned a list and nothing else, in
\* the order of the sources; errors holds exactly one entry for each fetcher
\* that raised and nothing else.
C15_FetcherFailuresAreIsolated ==
    pc = "filter" =>
        /\ \A k \in Succeeded : \A j \in DOMAIN local.results[k].val :
              \E p \in DOMAIN state.raw_articles :
                  state.raw_articles[p] = local.results[k].val[j]
        /\ Len(state.raw_articles) =
              Cardinality({k \in Succeeded : local.results[k].val # <<>>})
        /\ \A p, q \in DOMAIN state.raw_articles :
              p < q => SourceIndex(state.raw_articles[p].url)
                           < SourceIndex(state.raw_articles[q].url)
        /\ \A k \in Failed :
              Cardinality({e \in DOMAIN state.errors :
                              state.errors[e] = FetchError(local.fetchers[k])}) = 1
        /\ Len(state.errors) = Cardinality(Failed)

\* C15 witness: a fetcher raised between two fetchers that returned an
\* article each, and both articles are in raw_articles
C15_Witness ==
    /\ pc = "filter"
    /\ \E a, b, c \in DOMAIN local.fetchers :
          /\ a < b /\ b < c
          /\ local.results[a].ok /\ local.results[a].val # <<>>
          /\ ~local.results[b].ok
          /\ local.results[c].ok /\ local.results[c].val # <<>>
    /\ Len(state.raw_articles) >= 2
    /\ Len(state.errors) >= 1

-----------------------------------------------------------------------------
(* The workflow: runs of run_daily_brief one after another on one history   *)
(* file, fetch -> filter -> analyze -> deep_analyze -> format -> send        *)

\* at most this many runs are started
MaxRuns == 3

\* what the fetchers return on day clock: fresh articles with enough content
Fetched(clock) ==
    LET a1 == Article("u1", TitleGpt, <<"OpenAI", "Blog">>, PublishedAt(clock, TRUE), 150)
        a2 == Article("u2", TitleLlm, <<"HackerNews">>, PublishedAt(clock, TRUE), 150)
        a3 == Article("u3", TitleGPT5, <<"ArXiv">>, PublishedAt(clock, TRUE), 150)
    IN  { <<>>, <<a1>>, <<a2>>, <<a3>>, <<a2, a1>> }

\* the settings a process may be started with
MainSettings == { Settings(2, 5, 5), Settings(1, 0, 0) }

\* the history file before the first run
MainFiles ==
    { File("missing", <<>>),
      File("nullarts", <<>>),
      File("dict", <<Entry("u2", TitleLlm, SeenAt("aware", Day0 - 1))>>) }

\* how the LLM treats one article: a response, or an error that is not a
\* rate limit
Outcomes ==
    { Response("json", 12, 12), Response("json", 0 - 3, 7), Response("notjson", 0, 0) }

Init ==
    /\ file \in MainFiles
    /\ now = Day0
    /\ hpc = "idle"
    /\ pending = NothingPending
    /\ rec_items = <<>>
    /\ loaded = NotLoaded
    /\ recorded = {}
    /\ last_record = "none"
    /\ n_records = 0
    /\ written = NothingWritten
    /\ pc = "idle"
    /\ cfg \in MainSettings
    /\ state = InitialState(cfg.max_total_articles)
    /\ run = 0
    /\ local = NoLocal
    /\ file0 = file
    /\ AnalyzerIdle

\* no run is in progress
BetweenRuns == pc \in {"idle", "done", "failed", "crashed"}

\* run_daily_brief builds initial_state and invokes the workflow, some days
\* after the run before
StartRun ==
    /\ BetweenRuns
    /\ run < MaxRuns
    /\ run' = run + 1
    /\ \E days \in 0..(Day0 + MaxClock - now) : now' = now + days
    /\ state' = InitialState(cfg.max_total_articles)
    /\ local' = NoLocal
    /\ file0' = file
    /\ pc' = "fetch"
    /\ UNCHANGED <<file, hpc, pending, rec_items, loaded, recorded, last_record,
                   n_records, written, cfg, avars>>

\* fetch_news_node with two sources enabled: the first fetcher returns a
\* list of articles, the second one returns nothing or raises
FetchNewsNode ==
    /\ pc = "fetch"
    /\ \E raw_articles \in Fetched(now), raised \in BOOLEAN :
          state' = FetchNodeResult(state, <<"RSS Feeds", "Reddit">>,
                       <<Ok(raw_articles), IF raised THEN Raised ELSE Ok(<<>>)>>)
    /\ pc' = "filter"
    /\ UNCHANGED <<hvars, cfg, run, local, file0, avars>>

\* analyze_node, the LLM treating each article as one of Outcomes
AnalyzeNode ==
    /\ pc = "analyze"
    /\ \E outs \in [DOMAIN state.filtered_articles -> Outcomes] :
          LET analyzed == [i \in DOMAIN state.filtered_articles |->
                              analyze(state.filtered_articles[i], outs[i]).val]
          IN  state' = [state EXCEPT
                           !.analyzed_articles = filtered_by_score(analyzed, cfg)]
    /\ pc' = "deep_analyze"
    /\ UNCHANGED <<hvars, cfg, run, local, file0, avars>>

\* deep_analyze_node: adds deep analyses for the admitted articles and leaves
\* the rest of the state, and the history file, as they are
DeepAnalyzeNode ==
    /\ pc = "deep_analyze"
    /\ state' = [state EXCEPT !.deep_analyses = <<>>]
    /\ pc' = "format"
    /\ UNCHANGED <<hvars, cfg, run, local, file0, avars>>

\* format_node: the report of the analyzed articles
FormatNode ==
    /\ pc = "format"
    /\ state' = [state EXCEPT
                    !.report = [present |-> TRUE, items |-> state.analyzed_articles]]
    /\ pc' = "send"
    /\ UNCHANGED <<hvars, cfg, run, local, file0, avars>>

\* send_node returns early whenever there is no report, also with no
\* analyzed article
skips_delivery_OnlyNoReport(report, analyzed_articles) == ~report.present

\* send_node returns before save_report and send_report: `if not report`,
\* `if not analyzed_articles`
skips_delivery(report, analyzed_articles) ==
    ~report.present \/ analyzed_articles = <<>>

\* send_node when there is no report or no analyzed article: nothing is
\* saved, sent or recorded
SendNodeSkips ==
    /\ pc = "send"
    /\ skips_delivery(state.report, state.analyzed_articles)
    /\ state' = [state EXCEPT
                    !.telegram_message_id = "None",
                    !.errors = IF ~state.report.present
                               THEN Append(@, "No report to send") ELSE @]
    /\ local' = [NoLocal EXCEPT !.errors = state'.errors]
    /\ pc' = "done"
    /\ UNCHANGED <<hvars, cfg, run, file0, avars>>

\* send_node records whatever send_report returned
should_record_Always(telegram_message_id, analyzed_articles) ==
    analyzed_articles # <<>>

\* send_node: `if telegram_message_id and analyzed_articles`
should_record(telegram_message_id, analyzed_articles) ==
    telegram_message_id # "None" /\ analyzed_articles # <<>>

\* the try block of send_report: the message id, or Raised when
\* bot.send_message raises
send_report_try(transport) ==
    IF transport = "ok" THEN Ok("m1") ELSE Raised

\* TelegramSender.send_report: its except branch returns None for whatever
\* the try block raised
send_report(transport) ==
    IF send_report_try(transport).ok THEN send_report_try(transport) ELSE Ok("None")

\* how the send_report call of send_node ends: a message id ("sent"), None
\* ("none"), or an exception ("raised")
SendOutcome(transport) ==
    IF ~send_report(transport).ok THEN "raised"
    ELSE IF send_report(transport).val # "None" THEN "sent" ELSE "none"

\* the errors of send_node after save_report and send_report, starting from
\* an empty list
SendErrors_Fresh(errors, saved, sent) ==
    LET e1 == IF saved THEN <<>> ELSE <<"Error saving report">>
    IN  CASE sent = "sent" -> e1
          [] sent = "none" -> Append(e1, "Failed to send to Telegram")
          [] sent = "raised" -> Append(e1, "Error sending to Telegram")

\* the errors of send_node after save_report and send_report
SendErrors(errors, saved, sent) ==
    LET e1 == IF saved THEN errors ELSE Append(errors, "Error saving report")
    IN  CASE sent = "sent" -> e1
          [] sent = "none" -> Append(e1, "Failed to send to Telegram")
          [] sent = "raised" -> Append(e1, "Error sending to Telegram")

\* the send_error calls of send_node: one, in the except branch around
\* send_report
ErrorNotifications(sent) == IF sent = "raised" THEN 1 ELSE 0

\* the state send_node returns
SendNodeResult(st, loc) ==
    [st EXCEPT !.telegram_message_id = loc.telegram_message_id,
               !.report_path = loc.report_path,
               !.errors = loc.errors]

\* send_node up to the end, or up to the open of write_text inside
\* record_seen_articles: save_report, send_report (the transport answering or
\* raising), then the record call where a message id was obtained
SendNodeDeliver ==
    /\ pc = "send"
    /\ ~skips_delivery(state.report, state.analyzed_articles)
    /\ \E saved \in BOOLEAN, transport \in {"ok", "raises"}, opens \in BOOLEAN :
          LET sent == SendOutcome(transport)
              loc == [telegram_message_id |->
                          IF sent = "sent" THEN send_report(transport).val ELSE "None",
                      report_path |-> IF saved THEN "reports/brief.md" ELSE "None",
                      errors |-> SendErrors(state.errors, saved, sent),
                      send_attempts |-> 1,
                      error_notifications |-> ErrorNotifications(sent)]
              articles == [i \in DOMAIN state.analyzed_articles |->
                              state.analyzed_articles[i].article]
              r == record_seen_articles(articles, file, now, dedup_history_days)
              failed == [loc EXCEPT
                            !.errors = Append(@, "Error updating dedup history")]
          IN  IF ~should_record(loc.telegram_message_id, state.analyzed_articles)
              THEN /\ opens
                   /\ state' = SendNodeResult(state, loc)
                   /\ local' = loc
                   /\ pc' = "done"
                   /\ UNCHANGED <<file, hpc, pending, rec_items, last_record>>
              ELSE IF ~r.ok \/ ~opens
              THEN /\ state' = SendNodeResult(state, failed)
                   /\ local' = failed
                   /\ pc' = "done"
                   /\ last_record' = "raised"
                   /\ UNCHANGED <<file, hpc, pending, rec_items>>
              ELSE /\ file' = File("partial", <<>>)
                   /\ hpc' = "opened"
                   /\ pending' = [doc |-> r.val, read |-> read_history(file).val]
                   /\ rec_items' = articles
                   /\ local' = loc
                   /\ pc' = "send_write"
                   /\ UNCHANGED <<state, last_record>>
    /\ UNCHANGED <<now, loaded, recorded, n_records, written, cfg, run, file0, avars>>

\* write_text completes and send_node returns
SendNodeWritten ==
    /\ pc = "send_write"
    /\ WriteData
    /\ state' = SendNodeResult(state, local)
    /\ pc' = "done"
    /\ UNCHANGED <<cfg, run, local, file0, avars>>

\* write_text raises: send_node appends the error and returns
SendNodeWriteFails ==
    /\ pc = "send_write"
    /\ WriteFails
    /\ local' = [local EXCEPT !.errors = Append(@, "Error updating dedup history")]
    /\ state' = SendNodeResult(state, local')
    /\ pc' = "done"
    /\ UNCHANGED <<cfg, run, file0, avars>>

\* the process is killed while write_text writes
SendNodeCrash ==
    /\ pc = "send_write"
    /\ Crash
    /\ pc' = "crashed"
    /\ UNCHANGED <<state, cfg, run, local, file0, avars>>

Next ==
    \/ StartRun
    \/ FetchNewsNode
    \/ FilterNode
    \/ FilterNodeRaises
    \/ AnalyzeNode
    \/ DeepAnalyzeNode
    \/ FormatNode
    \/ SendNodeSkips
    \/ SendNodeDeliver
    \/ SendNodeWritten
    \/ SendNodeWriteFails
    \/ SendNodeCrash

Spec == Init /\ [][Next]_vars

-----------------------------------------------------------------------------
(* Claims about the runs, checked under Spec *)

\* C7 (as claimed): when an earlier run delivered an item and wrote it to the
\* history, no later run started within dedup_history_days days has in
\* filtered_articles an article with that url, or with a title of similarity
\* at least 0.8 to that title.
C7_DeliveredItemsAreNotFilteredAgain ==
    \A g \in recorded :
        (g.run < run /\ now - g.at <= dedup_history_days) =>
            \A i \in DOMAIN state.filtered_articles :
                /\ state.filtered_articles[i].url # g.url
                /\ ~calculate_similarity_ge_threshold(
                        state.filtered_articles[i].title, g.title)

\* the records of the history file are those it held when the run started
\* or records of this run's analyzed articles, stamped now
OnlyAdmittedRecords(f) ==
    f.kind = "dict" =>
        \A i \in DOMAIN f.articles :
            \/ f.articles[i] \in Range(read_history(file0).val)
            \/ \E j \in DOMAIN state.analyzed_articles :
                  f.articles[i] =
                      Entry(state.analyzed_articles[j].article.url,
                            state.analyzed_articles[j].article.title,
                            SeenAt("aware", now))

\* C8: a step changes the history file only inside send_node, after
\* send_report returned a message id and with analyzed articles at hand, and
\* the records it writes are records the file held or records of this run's
\* analyzed articles; a run that ends without a message id (no report, no
\* analyzed article, delivery failed) leaves the file as it found it.
C8_HistoryWrittenOnlyAfterDelivery ==
    /\ [][file' # file =>
            /\ pc \in {"send", "send_write"}
            /\ local'.telegram_message_id # "None"
            /\ state.analyzed_articles # <<>>
            /\ OnlyAdmittedRecords(file')]_vars
    /\ []((pc = "done" /\ state.telegram_message_id = "None") => file = file0)

\* C8 witness: a run delivered its report and then wrote a record of an
\* analyzed article into the history file
C8_Witness ==
    /\ pc = "done"
    /\ state.telegram_message_id # "None"
    /\ file.kind = "dict"
    /\ file # file0
    /\ \E i \in DOMAIN file.articles, j \in DOMAIN state.analyzed_articles :
          /\ file.articles[i].url = state.analyzed_articles[j].article.url
          /\ file.articles[i].seen_at = SeenAt("aware", now)
          /\ file.articles[i] \notin Range(read_history(file0).val)

\* the edges of the workflow: each stage hands the state to the next one,
\* send ends the run (send_write is send_node inside its history write)
StageOrder ==
    { <<"idle", "fetch">>, <<"done", "fetch">>, <<"failed", "fetch">>,
      <<"crashed", "fetch">>,
      <<"fetch", "filter">>, <<"filter", "analyze">>, <<"analyze", "deep_analyze">>,
      <<"deep_analyze", "format">>, <<"format", "send">>,
      <<"send", "send_write">>, <<"send", "done">>, <<"send_write", "done">>,
      <<"send_write", "crashed">> }

\* C12 (as claimed): the stages run in the order fetch, filter, analyze,
\* deep_analyze, format, send, one at a time, and no failure on the way
\* (fetcher, history read, LLM, report save) ends a run before send: every
\* step that leaves a stage enters the next stage of the order.
C12_StagesInOrderToSend ==
    [][pc' # pc => <<pc, pc'>> \in StageOrder]_vars

\* C13 (as claimed): when no article is admitted, format and send still run
\* and the report is handed to the delivery endpoint: send_node makes a
\* delivery attempt.
C13_EmptyReportStillDelivered ==
    (pc = "done" /\ state.analyzed_articles = <<>>) =>
        /\ state.report.present
        /\ local.send_attempts >= 1

\* C13 (amended): when no article is admitted, format_node still produces a
\* report and send_node still runs, but it makes no delivery attempt: it
\* saves no report file, calls neither send_report nor send_error, returns
\* telegram_message_id None, adds no error and leaves the history file as
\* the run found it.
C13_EmptyReportIsNotDelivered ==
    (pc = "done" /\ state.analyzed_articles = <<>>) =>
        /\ state.report.present
        /\ state.report.items = <<>>
        /\ local.send_attempts = 0
        /\ local.error_notifications = 0
        /\ state.telegram_message_id = "None"
        /\ state.report_path = "None"
        /\ \A i \in DOMAIN state.errors : state.errors[i] = "Error fetching from Reddit"
        /\ file = file0

\* C13 witness: a run that filtered and scored articles, admitted none, and
\* ended after format_node and send_node
C13_Witness ==
    /\ pc = "done"
    /\ state.filtered_articles # <<>>
    /\ state.analyzed_articles = <<>>
    /\ state.report.present

IsPrefix(s, t) == Len(s) <= Len(t) /\ SubSeq(t, 1, Len(s)) = s

\* the stages of a run in progress
RunningStages ==
    {"fetch", "filter", "analyze", "deep_analyze", "format", "send", "send_write"}

\* C14: the errors list of the state a stage returns has the errors list of
\* the state it received as a prefix.
C14_ErrorsOnlyGrow ==
    [][(pc \in RunningStages) => IsPrefix(state.errors, state'.errors)]_vars

\* C14 witness: a run ended with the error of a failed fetcher followed by
\* the errors send_node added for the report file and the delivery
C14_Witness ==
    /\ pc = "done"
    /\ Len(state.errors) >= 3
    /\ state.errors[1] = "Error fetching from Reddit"
    /\ state.errors[2] = "Error saving report"
    /\ state.errors[3] = "Failed to send to Telegram"

\* C20 (as claimed): whenever delivery fails (the transport raises or no
\* message id is obtained) send_node appends an error and makes one
\* error-notification attempt through send_error, and the stage completes.
C20_DeliveryFailureIsNotified ==
    (pc = "done" /\ local.send_attempts >= 1 /\ state.telegram_message_id = "None") =>
        /\ \E i \in DOMAIN state.errors :
              state.errors[i] \in {"Failed to send to Telegram",
                                   "Error sending to Telegram"}
        /\ local.error_notifications = 1

\* C27: analyze_batch returns one result for each article it was given, the
\* i-th result being that of the i-th article, in whatever order the calls
\* of a batch end and whichever of them end with the fallback result.
C27_ResultsPairedWithArticles ==
    (pc = "deep_analyze") =>
        /\ Len(results) = Len(state.filtered_articles)
        /\ \A i \in DOMAIN results :
              results[i].article = state.filtered_articles[i]

\* C27 witness: analyze_batch returned for three articles in two batches;
\* the first call ended with the fallback result, the second with a scored
\* one
C27_Witness ==
    /\ pc = "deep_analyze"
    /\ Len(state.filtered_articles) = 3
    /\ Len(results) = 3
    /\ results[1] = fallback(state.filtered_articles[1])
    /\ results[2].summary = LlmSummary
    /\ results[3].article = state.filtered_articles[3]

\* C28: at most batch_size analyze() calls are in flight at any moment, and
\* a call of the next batch starts only when no call of the batch before it
\* is still pending.
C28_BatchesDoNotOverlap ==
    /\ [](/\ Len(calls) <= batch_size
          /\ Cardinality({k \in DOMAIN calls : calls[k].status = "pending"})
                <= batch_size)
    /\ [][batch_lo' # batch_lo =>
              /\ \A k \in DOMAIN calls : calls[k].status = "done"
              /\ batch_lo' = batch_lo + Len(calls)
              /\ Len(results') = batch_lo']_vars

\* C28 witness: the second batch is running, one of its calls still
\* pending, after a first batch of batch_size calls that all ended
C28_Witness ==
    /\ pc = "analyzing"
    /\ batch_lo = batch_size
    /\ Len(results) = batch_size
    /\ \E k \in DOMAIN calls : calls[k].status = "pending"

-----------------------------------------------------------------------------
(* _ainvoke_with_retry and analyze as a function of what the LLM answers to *)
(* the successive attempts for one article                                   *)

UpperLetters == "ABCDEFGHIJKLMNOPQRSTUVWXYZ"
LowerLetters == "abcdefghijklmnopqrstuvwxyz"

\* str.lower() of one character
LowerLetter(c) ==
    IF \E i \in 1..Len(UpperLetters) : SubSeq(UpperLetters, i, i) = c
    THEN LET i == CHOOSE j \in 1..Len(UpperLetters) : SubSeq(UpperLetters, j, j) = c
         IN  SubSeq(LowerLetters, i, i)
    ELSE c

\* str.lower()
RECURSIVE LowerText(_)
LowerText(t) ==
    IF Len(t) = 0 THEN ""
    ELSE LowerLetter(SubSeq(t, 1, 1)) \o LowerText(SubSeq(t, 2, Len(t)))

\* needle in text
Contains(text, needle) ==
    \E i \in 1..(Len(text) - Len(needle) + 1) :
        SubSeq(text, i, i + Len(needle) - 1) = needle

\* _is_rate_limit_error without lower()
is_rate_limit_error_CaseSensitive(text) ==
    \/ Contains(text, "429")
    \/ Contains(text, "too many requests")
    \/ Contains(text, "rate limit")

\* _is_rate_limit_error(exc), text being str(exc)
is_rate_limit_error(text) ==
    LET message == LowerText(text)
    IN  \/ Contains(message, "429")
        \/ Contains(message, "too many requests")
        \/ Contains(message, "rate limit")

\* what the LLM does at one attempt: it answers, or raises with a text
Answered(response) == [kind |-> "response", response |-> response, text |-> ""]
Failure(text) == [kind |-> "error", response |-> Response("notjson", 0, 0), text |-> text]

Answers ==
    { Answered(Response("json", 12, 12)),
      Answered(Response("notjson", 0, 0)),
      Failure("Error code: 429"),
      Failure("Too Many Requests"),
      Failure("Rate limit exceeded"),
      Failure("Connection timeout"),
      Failure("Error code: 500") }

\* _ainvoke_with_retry from attempt number attempt on: the response, or
\* Raised, and the number of attempts made; an attempt is repeated when it
\* raised a rate limit error and fewer than MaxAttempts attempts were made
RECURSIVE ainvoke_with_retry(_, _)
ainvoke_with_retry(answers, attempt) ==
    LET a == answers[attempt]
    IN  IF a.kind = "response"
        THEN [attempts |-> attempt, outcome |-> Ok(a.response)]
        ELSE IF is_rate_limit_error(a.text) /\ attempt < MaxAttempts
        THEN ainvoke_with_retry(answers, attempt + 1)
        ELSE [attempts |-> attempt, outcome |-> Raised]

\* analyze(article), the LLM answering the attempts as answers says: the
\* finished call
analyze_with_retry(article, answers) ==
    LET r == ainvoke_with_retry(answers, 1)
    IN  IF r.outcome.ok
        THEN Call("done", r.attempts, analyze(article, r.outcome.val),
                  IF analyze_try(article, r.outcome.val).ok
                  THEN "scored" ELSE "unparseable")
        ELSE Call("done", r.attempts, analyze_llm_raised(article),
                  IF r.attempts = MaxAttempts /\ is_rate_limit_error(answers[r.attempts].text)
                  THEN "exhausted" ELSE "error")

\* one article, and an answer of the LLM for each attempt it may be asked
\* for and one more
RInit ==
    /\ HistoryIdle
    /\ pc = "analyze"
    /\ cfg = DefaultSettings
    /\ state = [InitialState(cfg.max_total_articles) EXCEPT
                   !.filtered_articles = <<AnalyzePool[1]>>]
    /\ run = 1
    /\ \E answers \in [1..(MaxAttempts + 1) -> Answers] :
          local = [answers |-> answers]
    /\ file0 = file
    /\ AnalyzerIdle

\* analyze(article) runs to its end
AnalyzeCall ==
    /\ pc = "analyze"
    /\ calls' = <<analyze_with_retry(state.filtered_articles[1], local.answers)>>
    /\ pc' = "analyzing"
    /\ UNCHANGED <<hvars, state, cfg, run, local, file0, results, batch_lo>>

RNext ==
    \/ AnalyzeCall
    \/ AnalyzeNodeReturns /\ UNCHANGED <<hvars, cfg, run, local, file0>>

SpecRetry == RInit /\ [][RNext]_vars

\* the error texts of Answers that hold '429', 'too many requests' or
\* 'rate limit' in some case of letters
RateLimitTexts == {"Error code: 429", "Too Many Requests", "Rate limit exceeded"}

IsRateLimitFailure(a) == a.kind = "error" /\ a.text \in RateLimitTexts

\* C16: for one article the LLM is invoked at most 4 times; every
\* invocation but the first follows a failure whose text holds '429', 'too
\* many requests' or 'rate limit' in any case of letters; a failure of
\* another kind is the last invocation and gives the fallback result; four
\* rate limit failures in a row give the fallback result.
C16_RetryOnlyOnRateLimit ==
    \A k \in DOMAIN calls :
        LET n == calls[k].attempts
            answers == local.answers
        IN  /\ n >= 1 /\ n <= 4
            /\ \A i \in 1..(n - 1) : IsRateLimitFailure(answers[i])
            /\ (n < 4 => ~IsRateLimitFailure(answers[n]))
            /\ (answers[n].kind = "error" =>
                   calls[k].result = Ok(fallback(state.filtered_articles[k])))
            /\ (answers[n].kind = "response" =>
                   calls[k].result = analyze(state.filtered_articles[k],
                                             answers[n].response))

\* C16 witness: four rate limit failures in a row, one of them spelled with
\* capitals, and the fallback result
C16_Witness ==
    /\ pc = "analyzing"
    /\ calls # <<>>
    /\ calls[1].attempts = 4
    /\ \A i \in 1..4 : IsRateLimitFailure(local.answers[i])
    /\ local.answers[2].text = "Too Many Requests"
    /\ local.answers[1].text = "Error code: 429"
    /\ calls[1].result = Ok(fallback(state.filtered_articles[1]))

-----------------------------------------------------------------------------
(* DeepAnalyzer.analyze_batch on its own: the selection of the analyses that *)
(* get a deep analysis and the loop over them, each deep analysis            *)
(* succeeding or raising                                                      *)

MaxAdmitted == 2

\* three of the five values of CategoryType
DeepCategories == {"Breaking News", "Research", "Tutorial"}

DeepScores == {6, 7, 8, 10}

\* AnalysisResult as DeepAnalyzer reads it: with its category
Analysis(article, category, importance_score) ==
    [article |-> article,
     category |-> category,
     importance_score |-> importance_score,
     ai_relevance_score |-> MaxScore,
     summary |-> LlmSummary]

\* settings has no attribute deep_analysis_threshold, or has it with a value
NotConfigured == [configured |-> FALSE, value |-> 0]
Configured(value) == [configured |-> TRUE, value |-> value]

DeepThresholdSettings == {NotConfigured, Configured(6), Configured(8), Configured(9)}

DefaultDeepThreshold == 8
PrivilegedScore == 7

\* getattr(settings, 'deep_analysis_threshold', 8)
deep_analysis_threshold(setting) ==
    IF setting.configured THEN setting.value ELSE DefaultDeepThreshold

\* should_deep_analyze without its second test
should_deep_analyze_ScoreOnly(analysis, setting) ==
    analysis.importance_score >= deep_analysis_threshold(setting)

\* should_deep_analyze(analysis)
should_deep_analyze(analysis, setting) ==
    LET threshold == deep_analysis_threshold(setting)
    IN  IF analysis.importance_score >= threshold THEN TRUE
        ELSE IF /\ analysis.category \in {"Breaking News", "Research"}
                /\ analysis.importance_score >= PrivilegedScore THEN TRUE
        ELSE FALSE

\* articles_to_analyze of analyze_batch
articles_to_analyze(analyzed_articles, setting) ==
    SelectSeq(analyzed_articles, LAMBDA a : should_deep_analyze(a, setting))

\* DeepAnalysis: the url of the article it is about
DeepAnalysis(article_url) == [article_url |-> article_url]

\* the loop body of analyze_batch forgetting the earlier results when
\* analyze raises
deep_append_Forgets(deep_results, outcome) ==
    IF outcome.ok THEN Append(deep_results, outcome.val) ELSE <<>>

\* the loop body of analyze_batch: the result of analyze is appended, an
\* exception of analyze is logged
deep_append(deep_results, outcome) ==
    IF outcome.ok THEN Append(deep_results, outcome.val) ELSE deep_results

\* the local variables of analyze_batch; processed and failed are ghosts: the
\* urls analyze was called with, in the order of the calls, and the urls for
\* which it raised
DeepLocal(setting, candidates, deep_results, processed, failed) ==
    [deep_analysis_threshold |-> setting,
     articles_to_analyze |-> candidates,
     results |-> deep_results,
     processed |-> processed,
     failed |-> failed]

\* the lists of up to MaxAdmitted analyses of the articles of AnalyzePool
AdmittedLists ==
    UNION { { [i \in 1..n |-> Analysis(AnalyzePool[i], c[i], s[i])] :
                c \in [1..n -> DeepCategories], s \in [1..n -> DeepScores] } :
            n \in 0..MaxAdmitted }

DInit ==
    /\ HistoryIdle
    /\ pc = "deep_analyze"
    /\ cfg = DefaultSettings
    /\ \E analyzed_articles \in AdmittedLists :
          state = [InitialState(cfg.max_total_articles) EXCEPT
                      !.analyzed_articles = analyzed_articles]
    /\ run = 1
    /\ \E setting \in DeepThresholdSettings :
          local = DeepLocal(setting, <<>>, <<>>, <<>>, {})
    /\ file0 = file
    /\ AnalyzerIdle

\* analyze_batch up to its loop; it returns [] when nothing is selected
AnalyzeBatchSelect ==
    /\ pc = "deep_analyze"
    /\ LET candidates == articles_to_analyze(state.analyzed_articles,
                                             local.deep_analysis_threshold)
       IN  /\ local' = [local EXCEPT !.articles_to_analyze = candidates]
           /\ pc' = IF candidates = <<>> THEN "deep_returned" ELSE "deep_loop"
    /\ UNCHANGED <<hvars, state, cfg, run, file0, avars>>

\* one turn of the loop of analyze_batch: analyze returns or raises; after
\* the last turn analyze_batch returns results
AnalyzeBatchTurn ==
    /\ pc = "deep_loop"
    /\ Len(local.processed) < Len(local.articles_to_analyze)
    /\ LET analysis == local.articles_to_analyze[Len(local.processed) + 1]
           url == analysis.article.url
       IN  \E outcome \in {Ok(DeepAnalysis(url)), Raised} :
              /\ local' = [local EXCEPT
                              !.results = deep_append(local.results, outcome),
                              !.processed = Append(local.processed, url),
                              !.failed = IF outcome.ok THEN local.failed
                                         ELSE local.failed \cup {url}]
              /\ pc' = IF Len(local.processed) + 1 = Len(local.articles_to_analyze)
                       THEN "deep_returned" ELSE "deep_loop"
    /\ UNCHANGED <<hvars, state, cfg, run, file0, avars>>

DNext ==
    \/ AnalyzeBatchSelect
    \/ AnalyzeBatchTurn

SpecDeep == DInit /\ [][DNext]_vars

\* the selection rule as the documentation of should_deep_analyze words it
Qualifies(analysis, setting) ==
    \/ analysis.importance_score >= (IF setting.configured THEN setting.value ELSE 8)
    \/ /\ analysis.category = "Breaking News" \/ analysis.category = "Research"
       /\ analysis.importance_score >= 7

\* C17: once analyze_batch has made its selection, an admitted item is among
\* the selected ones if and only if its importance score is at least
\* deep_analysis_threshold (8 when not configured), or its category is
\* Breaking News or Research and its importance score is at least 7.
C17_DeepSelectionRule ==
    (pc \in {"deep_loop", "deep_returned"}) =>
        \A i \in DOMAIN state.analyzed_articles :
            (\E j \in DOMAIN local.articles_to_analyze :
                 local.articles_to_analyze[j] = state.analyzed_articles[i])
            <=> Qualifies(state.analyzed_articles[i], local.deep_analysis_threshold)

\* C17 witness: with no threshold configured, a Research item of score 7 is
\* selected and a Tutorial item of score 7 is not
C17_Witness ==
    /\ pc \in {"deep_loop", "deep_returned"}
    /\ ~local.deep_analysis_threshold.configured
    /\ Len(state.analyzed_articles) = 2
    /\ state.analyzed_articles[1].category = "Tutorial"
    /\ state.analyzed_articles[1].importance_score = 7
    /\ state.analyzed_articles[2].category = "Research"
    /\ state.analyzed_articles[2].importance_score = 7
    /\ local.articles_to_analyze = <<state.analyzed_articles[2]>>

\* the urls of the analyses of a list, in its order
UrlsOf(analyses) == [i \in DOMAIN analyses |-> analyses[i].article.url]

\* C18: analyze_batch calls analyze for the qualifying items one after the
\* other in input order; what it returns is the deep analyses of the
\* qualifying items for which analyze did not raise, in input order; it
\* always returns, and the admitted list is never changed.
C18_DeepFailuresAreIsolated ==
    /\ [](LET qualifying == SelectSeq(state.analyzed_articles,
                   LAMBDA a : Qualifies(a, local.deep_analysis_threshold))
              succeeded == SelectSeq(qualifying,
                   LAMBDA a : a.article.url \notin local.failed)
          IN  /\ pc \in {"deep_analyze", "deep_loop", "deep_returned"}
              /\ IsPrefix(local.processed, UrlsOf(qualifying))
              /\ (pc = "deep_returned" =>
                     /\ local.processed = UrlsOf(qualifying)
                     /\ local.results =
                            [i \in DOMAIN succeeded |->
                                DeepAnalysis(succeeded[i].article.url)]))
    /\ [][/\ state'.analyzed_articles = state.analyzed_articles
          /\ Len(local'.processed) <= Len(local.processed) + 1]_vars

\* C18 witness: of two qualifying items the first one's deep analysis
\* failed, and the second one's is what analyze_batch returned
C18_Witness ==
    /\ pc = "deep_returned"
    /\ Len(local.articles_to_analyze) = 2
    /\ local.failed = {local.articles_to_analyze[1].article.url}
    /\ local.results = <<DeepAnalysis(local.articles_to_analyze[2].article.url)>>

-----------------------------------------------------------------------------
(* TelegramSender.send_report on its own, the report text being the lengths  *)
(* of its lines: the split of a long text into messages and their sending,   *)
(* each bot.send_message returning or raising                                *)

MaxLines == 3

MAX_MESSAGE_LENGTH == 4096

\* the room _send_long_message leaves below MAX_MESSAGE_LENGTH
ChunkMargin == 100

\* the lengths a line of the report is given
LineLengths == {0, 10, 2000, 3996, 4100}

\* len(content), content being its lines joined by '\n'
ContentLength(lines) == SumSeq(lines) + Len(lines) - 1

\* a piece of the text: the positions of the lines it is made of, joined by
\* '\n', and its length; the empty string has no line and length 0
Chunk(positions, length) == [lines |-> positions, len |-> length]
EmptyChunk == Chunk(<<>>, 0)

\* messages_to_send.append(current_chunk) with no `if current_chunk`
append_chunk_Always(messages_to_send, current_chunk) ==
    Append(messages_to_send, current_chunk)

\* messages_to_send.append(current_chunk) under `if current_chunk`
append_chunk(messages_to_send, current_chunk) ==
    IF current_chunk.len > 0 THEN Append(messages_to_send, current_chunk)
    ELSE messages_to_send

\* the splitting loop of _send_long_message from line i on, and the
\* remaining chunk after it
RECURSIVE split_lines(_, _, _, _)
split_lines(lines, i, current_chunk, messages_to_send) ==
    IF i > Len(lines) THEN append_chunk(messages_to_send, current_chunk)
    ELSE LET line == Chunk(<<i>>, lines[i])
             test_chunk ==
                 IF current_chunk.len > 0
                 THEN Chunk(Append(current_chunk.lines, i),
                            current_chunk.len + 1 + lines[i])
                 ELSE line
         IN  IF test_chunk.len > MAX_MESSAGE_LENGTH - ChunkMargin
             THEN split_lines(lines, i + 1, line,
                              append_chunk(messages_to_send, current_chunk))
             ELSE split_lines(lines, i + 1, test_chunk, messages_to_send)

\* the texts send_report passes to bot.send_message, in their order: the
\* whole content when it fits, else the chunks of _send_long_message
messages_of(lines) ==
    IF ContentLength(lines) <= MAX_MESSAGE_LENGTH
    THEN <<Chunk([i \in 1..Len(lines) |-> i], ContentLength(lines))>>
    ELSE split_lines(lines, 1, EmptyChunk, <<>>)

\* what send_report returns: no id, or str(message.message_id)
NoMessageId == [ok |-> FALSE, val |-> 0]

\* the local variables of send_report and _send_long_message; attempts is a
\* ghost: the texts bot.send_message was called with and whether it returned
SendLocal(content, messages_to_send, attempts, returned) ==
    [content |-> content,
     messages_to_send |-> messages_to_send,
     attempts |-> attempts,
     returned |-> returned]

TInit ==
    /\ HistoryIdle
    /\ pc = "send_report"
    /\ cfg = DefaultSettings
    /\ state = InitialState(cfg.max_total_articles)
    /\ run = 1
    /\ \E n \in 1..MaxLines : \E content \in [1..n -> LineLengths] :
          local = SendLocal(content, <<>>, <<>>, NoMessageId)
    /\ file0 = file
    /\ AnalyzerIdle

\* send_report up to the first bot.send_message
SendReportSplit ==
    /\ pc = "send_report"
    /\ LET messages_to_send == messages_of(local.content)
       IN  /\ local' = [local EXCEPT !.messages_to_send = messages_to_send]
           /\ pc' = IF messages_to_send = <<>> THEN "send_report_returned"
                    ELSE "send_message"
    /\ UNCHANGED <<hvars, state, cfg, run, file0, avars>>

\* one bot.send_message: it returns a message, whose id is the number of the
\* call here, or raises, and send_report returns None; after the last one
\* send_report returns the last id
SendMessage ==
    /\ pc = "send_message"
    /\ Len(local.attempts) < Len(local.messages_to_send)
    /\ LET k == Len(local.attempts) + 1
           chunk == local.messages_to_send[k]
       IN  \E returns \in BOOLEAN :
              /\ local' = [local EXCEPT
                              !.attempts = Append(local.attempts,
                                  [chunk |-> chunk, message_id |-> k, ok |-> returns]),
                              !.returned = IF returns THEN Ok(k) ELSE NoMessageId]
              /\ pc' = IF returns /\ k < Len(local.messages_to_send)
                       THEN "send_message" ELSE "send_report_returned"
    /\ UNCHANGED <<hvars, state, cfg, run, file0, avars>>

TNext ==
    \/ SendReportSplit
    \/ SendMessage

SpecSend == TInit /\ [][TNext]_vars

\* the positions of the lines of the texts passed to bot.send_message so
\* far, one text after the other
RECURSIVE LinesSent(_)
LinesSent(attempts) ==
    IF attempts = <<>> THEN <<>>
    ELSE LinesSent(SubSeq(attempts, 1, Len(attempts) - 1))
             \o attempts[Len(attempts)].chunk.lines

\* C19: when the report text is longer than 4096 characters, every text
\* passed to bot.send_message is at most 4096 characters long and is made of
\* whole lines of the report, the lines go out in the order of the report,
\* and when every send_message returned, send_report returns the id of the
\* last one.
C19_LongReportChunksFit ==
    (ContentLength(local.content) > 4096
        /\ pc \in {"send_message", "send_report_returned"}) =>
        /\ \A k \in DOMAIN local.attempts : local.attempts[k].chunk.len <= 4096
        /\ \A k \in DOMAIN local.attempts :
              local.attempts[k].chunk.len =
                  ContentLength([j \in DOMAIN local.attempts[k].chunk.lines |->
                                    local.content[local.attempts[k].chunk.lines[j]]])
        /\ LET sent == LinesSent(local.attempts)
           IN  \A i, j \in DOMAIN sent : i < j => sent[i] < sent[j]
        /\ (pc = "send_report_returned"
              /\ \A k \in DOMAIN local.attempts : local.attempts[k].ok) =>
               /\ Len(local.attempts) = Len(local.messages_to_send)
               /\ local.returned = Ok(local.attempts[Len(local.attempts)].message_id)

\* the positions of the lines of the chunks, one chunk after the other
RECURSIVE LinesOf(_)
LinesOf(chunks) ==
    IF chunks = <<>> THEN <<>>
    ELSE Head(chunks).lines \o LinesOf(Tail(chunks))

\* C30: of a report text that is split, every line that is not empty is in
\* exactly one chunk of messages_to_send, the lines are in the order of the
\* report across and within the chunks, and no chunk is empty, neither
\* among the chunks nor among the texts passed to bot.send_message.
C30_SplitLosesNoLine ==
    (ContentLength(local.content) > MAX_MESSAGE_LENGTH
        /\ pc \in {"send_message", "send_report_returned"}) =>
        LET placed == LinesOf(local.messages_to_send)
        IN  /\ \A i \in DOMAIN local.content :
                  local.content[i] > 0 =>
                      Cardinality({k \in DOMAIN placed : placed[k] = i}) = 1
            /\ \A k, l \in DOMAIN placed : k < l => placed[k] < placed[l]
            /\ \A k \in DOMAIN local.messages_to_send :
                  /\ local.messages_to_send[k].len > 0
                  /\ local.messages_to_send[k].lines # <<>>
            /\ \A k \in DOMAIN local.attempts :
                  /\ local.attempts[k].chunk = local.messages_to_send[k]
                  /\ local.attempts[k].chunk.len > 0

\* C30 witness: a text of three lines, the second one empty, was split into
\* two chunks and both were passed to bot.send_message
C30_Witness ==
    /\ pc = "send_report_returned"
    /\ Len(local.content) = 3
    /\ local.content[1] > 0
    /\ local.content[2] = 0
    /\ local.content[3] > 0
    /\ ContentLength(local.content) > MAX_MESSAGE_LENGTH
    /\ Len(local.messages_to_send) = 2
    /\ Len(local.attempts) = 2

-----------------------------------------------------------------------------
(* CircuitBreaker: calls through one breaker, which may overlap since call   *)
(* awaits the wrapped function, while the clock advances                      *)

MaxThreshold == 2
MaxBreakerCalls == 4
MaxInFlight == 2

\* the recovery_timeout values tried
RecoveryTimeouts == {0, 2}

\* last_failure_time: None, or a time
NoTime == [set |-> FALSE, t |-> 0]
Time(t) == [set |-> TRUE, t |-> t]

\* CircuitBreaker.__init__
CircuitBreaker(failure_threshold, recovery_timeout) ==
    [failure_threshold |-> failure_threshold,
     recovery_timeout |-> recovery_timeout,
     failures |-> 0,
     last_failure_time |-> NoTime,
     state |-> "closed"]

\* _should_attempt_reset at time clock
should_attempt_reset(cb, clock) ==
    IF ~cb.last_failure_time.set THEN TRUE
    ELSE (clock - cb.last_failure_time.t) >= cb.recovery_timeout

\* _on_success
on_success(cb) == [cb EXCEPT !.failures = 0, !.state = "closed"]

\* _on_failure opening the circuit one failure late
on_failure_Late(cb, clock) ==
    LET failed == [cb EXCEPT !.failures = cb.failures + 1,
                             !.last_failure_time = Time(clock)]
    IN  IF failed.failures > failed.failure_threshold
        THEN [failed EXCEPT !.state = "open"]
        ELSE failed

\* _on_failure at time clock
on_failure(cb, clock) ==
    LET failed == [cb EXCEPT !.failures = cb.failures + 1,
                             !.last_failure_time = Time(clock)]
    IN  IF failed.failures >= failed.failure_threshold
        THEN [failed EXCEPT !.state = "open"]
        ELSE failed

\* the breaker and what is known of its calls; the ghosts are: calls_made,
\* the calls of call so far; invocations, the calls of the wrapped function
\* so far; in_flight, the wrapped functions that have not returned yet;
\* since_success, the calls that failed since the last one that succeeded;
\* last_event, what the last step of a call was
BreakerLocal(cb, calls_made, invocations, in_flight, since_success, last_event) ==
    [cb |-> cb,
     calls_made |-> calls_made,
     invocations |-> invocations,
     in_flight |-> in_flight,
     since_success |-> since_success,
     last_event |-> last_event]

BInit ==
    /\ HistoryIdle
    /\ pc = "idle"
    /\ state = InitialState(1)
    /\ cfg = DefaultSettings
    /\ run = 0
    /\ \E failure_threshold \in 1..MaxThreshold, recovery_timeout \in RecoveryTimeouts :
          local = BreakerLocal(CircuitBreaker(failure_threshold, recovery_timeout),
                               0, 0, 0, 0, "none")
    /\ file0 = file
    /\ AnalyzerIdle

\* time passes
BreakerTick ==
    /\ Tick
    /\ local' = [local EXCEPT !.last_event = "tick"]
    /\ UNCHANGED <<pc, state, cfg, run, file0, avars>>

\* call finds the circuit open with no reset due and raises
\* CircuitBreakerOpen
CallRejected ==
    /\ local.calls_made < MaxBreakerCalls
    /\ local.cb.state = "open"
    /\ ~should_attempt_reset(local.cb, now)
    /\ local' = [local EXCEPT !.calls_made = @ + 1, !.last_event = "rejected"]
    /\ UNCHANGED <<hvars, pc, state, cfg, run, file0, avars>>

\* call up to its await: an open circuit with a reset due becomes half-open
\* and the wrapped function is invoked
CallInvokes ==
    /\ local.calls_made < MaxBreakerCalls
    /\ local.in_flight < MaxInFlight
    /\ local.cb.state = "open" => should_attempt_reset(local.cb, now)
    /\ local' = [local EXCEPT
                    !.cb.state = IF local.cb.state = "open" THEN "half-open" ELSE @,
                    !.calls_made = @ + 1,
                    !.invocations = @ + 1,
                    !.in_flight = @ + 1,
                    !.last_event = "invoked"]
    /\ UNCHANGED <<hvars, pc, state, cfg, run, file0, avars>>

\* the wrapped function returns: _on_success
CallSucceeds ==
    /\ local.in_flight > 0
    /\ local' = [local EXCEPT
                    !.cb = on_success(local.cb),
                    !.in_flight = @ - 1,
                    !.since_success = 0,
                    !.last_event = "succeeded"]
    /\ UNCHANGED <<hvars, pc, state, cfg, run, file0, avars>>

\* the wrapped function raises: _on_failure, and the exception is raised
\* again
CallFails ==
    /\ local.in_flight > 0
    /\ local' = [local EXCEPT
                    !.cb = on_failure(local.cb, now),
                    !.in_flight = @ - 1,
                    !.since_success = @ + 1,
                    !.last_event = "failed"]
    /\ UNCHANGED <<hvars, pc, state, cfg, run, file0, avars>>

BNext ==
    \/ BreakerTick
    \/ CallRejected
    \/ CallInvokes
    \/ CallSucceeds
    \/ CallFails

SpecBreaker == BInit /\ [][BNext]_vars

\* C22: failures counts the calls that failed since the last success; the
\* step in which the n-th of them fails, n the failure threshold, leaves the
\* state open with failures = n; a call made while the state is open and
\* less than recovery_timeout after the last failure invokes nothing and is
\* rejected; a call that succeeds leaves the state closed with failures = 0.
C22_BreakerOpensAndRejects ==
    /\ [](local.cb.failures = local.since_success)
    /\ [][/\ (local'.since_success = local.since_success + 1
                 /\ local'.since_success = local.cb.failure_threshold) =>
                (local'.cb.state = "open"
                    /\ local'.cb.failures = local.cb.failure_threshold)
          /\ (local'.calls_made = local.calls_made + 1
                 /\ local.cb.state = "open"
                 /\ local.cb.last_failure_time.set
                 /\ now - local.cb.last_failure_time.t < local.cb.recovery_timeout) =>
                (local'.last_event = "rejected"
                    /\ local'.invocations = local.invocations
                    /\ local'.in_flight = local.in_flight
                    /\ local'.cb = local.cb)
          /\ (local'.in_flight = local.in_flight - 1
                 /\ local'.last_event = "succeeded") =>
                (local'.cb.state = "closed" /\ local'.cb.failures = 0)]_vars

\* C22 witness: a call was rejected by a breaker of threshold 2 that two
\* failed calls had opened
C22_Witness ==
    /\ local.last_event = "rejected"
    /\ local.cb.failure_threshold = 2
    /\ local.cb.failures = 2
    /\ local.cb.state = "open"
    /\ local.invocations = 2
    /\ local.calls_made = 3

\* C22 witness of the probe: after the timeout a call went through the open
\* breaker and succeeded
C22_WitnessProbe ==
    /\ local.last_event = "succeeded"
    /\ local.cb.state = "closed"
    /\ local.cb.last_failure_time.set
    /\ local.cb.recovery_timeout > 0
    /\ local.invocations > local.cb.failure_threshold
    /\ local.calls_made = local.invocations
    /\ local.calls_made = local.cb.failure_threshold + 1

-----------------------------------------------------------------------------
(* async_retry: one call of a wrapped function, whose attempts return or     *)
(* raise                                                                      *)

MaxRetryAttempts == 3

\* RETRYABLE_EXCEPTIONS, by the names of the classes
RETRYABLE_EXCEPTIONS ==
    {"ClientError", "ServerTimeoutError", "asyncio.TimeoutError",
     "ConnectionError", "TimeoutError"}

\* the base classes of the exception classes an attempt raises here
Bases(cls) ==
    CASE cls = "ConnectionResetError" -> {"ConnectionResetError", "ConnectionError", "OSError"}
      [] cls = "ConnectionError" -> {"ConnectionError", "OSError"}
      [] cls = "TimeoutError" -> {"TimeoutError", "OSError"}
      [] cls = "ValueError" -> {"ValueError"}
      [] OTHER -> {cls}

\* what an attempt does: it returns, or raises an exception of a class
AttemptOutcomes ==
    {"returns", "ConnectionError", "ConnectionResetError", "TimeoutError",
     "ClientError", "ValueError"}

\* retry_if_exception_type(exceptions): isinstance(exception, exceptions)
retry_if_exception_type(exceptions, cls) == Bases(cls) \cap exceptions # {}

\* a stop that allows one attempt more
stop_after_attempt_OneMore(max_attempts, attempt_number) ==
    attempt_number > max_attempts

\* stop_after_attempt(max_attempts) at the attempt of this number
stop_after_attempt(max_attempts, attempt_number) ==
    attempt_number >= max_attempts

\* the state of one call of wrapper: attempt, the counter of the loop;
\* status, "running" or how the call ended, with the class raised; log is a
\* ghost, what each invocation of func did
RetryLocal(max_attempts, attempt, status, raised, log) ==
    [max_attempts |-> max_attempts,
     attempt |-> attempt,
     status |-> status,
     raised |-> raised,
     log |-> log]

YInit ==
    /\ HistoryIdle
    /\ pc = "idle"
    /\ state = InitialState(1)
    /\ cfg = DefaultSettings
    /\ run = 0
    /\ \E max_attempts \in 1..MaxRetryAttempts :
          local = RetryLocal(max_attempts, 0, "running", "None", <<>>)
    /\ file0 = file
    /\ AnalyzerIdle

\* one turn of `async for attempt_ctx in retry_config`: func is invoked; its
\* result is returned, or its exception is raised again when it is not of a
\* retryable class or stop_after_attempt says stop; else the loop goes on
RetryAttempt ==
    /\ local.status = "running"
    /\ \E outcome \in AttemptOutcomes :
          LET attempt == local.attempt + 1
          IN  local' = [local EXCEPT
                  !.attempt = attempt,
                  !.log = Append(local.log, outcome),
                  !.status =
                      IF outcome = "returns" THEN "returned"
                      ELSE IF ~retry_if_exception_type(RETRYABLE_EXCEPTIONS, outcome)
                      THEN "raised"
                      ELSE IF stop_after_attempt(local.max_attempts, attempt)
                      THEN "raised"
                      ELSE "running",
                  !.raised =
                      IF outcome = "returns" THEN "None"
                      ELSE IF ~retry_if_exception_type(RETRYABLE_EXCEPTIONS, outcome)
                      THEN outcome
                      ELSE IF stop_after_attempt(local.max_attempts, attempt)
                      THEN outcome
                      ELSE "None"]
    /\ UNCHANGED <<hvars, pc, state, cfg, run, file0, avars>>

YNext == RetryAttempt

SpecAsyncRetry == YInit /\ [][YNext]_vars

\* the outcomes of an attempt after which async_retry tries again: the
\* exceptions that are instances of a class of RETRYABLE_EXCEPTIONS
RetryableOutcomes ==
    {"ConnectionError", "ConnectionResetError", "TimeoutError", "ClientError"}

\* C23: a function wrapped by async_retry(max_attempts=n), n >= 1, is
\* invoked at most n times in a call; every invocation but the first follows
\* one that raised a retryable exception; a first attempt that succeeds is
\* the only one; when n invocations have raised a retryable exception the
\* call is over and has raised the exception of the n-th.
C23_AtMostMaxAttempts ==
    LET n == local.max_attempts
        k == Len(local.log)
    IN  /\ k <= n
        /\ \A i \in 1..(k - 1) : local.log[i] \in RetryableOutcomes
        /\ (local.status = "running" =>
               k < n /\ (k > 0 => local.log[k] \in RetryableOutcomes))
        /\ (local.status = "returned" => local.log[k] = "returns")
        /\ (local.status = "raised" =>
               /\ local.log[k] # "returns"
               /\ local.raised = local.log[k]
               /\ local.log[k] \in RetryableOutcomes => k = n)
        /\ ((k = n /\ \A i \in 1..n : local.log[i] \in RetryableOutcomes) =>
               local.status = "raised")

\* C23 witness: three attempts of three raised ConnectionError, a subclass
\* of it the second time, and the call raised ConnectionError
C23_Witness ==
    /\ local.max_attempts = 3
    /\ local.log = <<"ConnectionError", "ConnectionResetError", "ConnectionError">>
    /\ local.status = "raised"
    /\ local.raised = "ConnectionError"

-----------------------------------------------------------------------------
(* deduplicate_articles on its own: one call on any list of articles         *)

MaxBatch == 3

\* articles that differ in url and title only
DedupPool ==
    { Article("u1", TitleGpt, <<"HackerNews">>, PublishedAt(Day0, TRUE), 150),
      Article("u2", TitleGPT5, <<"HackerNews">>, PublishedAt(Day0, TRUE), 150),
      Article("u1", TitleLlm, <<"HackerNews">>, PublishedAt(Day0, TRUE), 150),
      Article("u3", TitleEmpty, <<"HackerNews">>, PublishedAt(Day0, TRUE), 150),
      Article("u4", TitleEmpty, <<"HackerNews">>, PublishedAt(Day0, TRUE), 150),
      Article("u5", TitleAaba, <<"HackerNews">>, PublishedAt(Day0, TRUE), 150),
      Article("u6", TitleBaacba, <<"HackerNews">>, PublishedAt(Day0, TRUE), 150) }

\* what is known of a call of deduplicate_articles: its argument and the
\* list it returned
DedupLocal(articles, unique_articles) ==
    [articles |-> articles, unique_articles |-> unique_articles]

UInit ==
    /\ HistoryIdle
    /\ pc = "deduplicate"
    /\ state = InitialState(1)
    /\ cfg = DefaultSettings
    /\ run = 0
    /\ \E articles \in SeqsUpTo(DedupPool, MaxBatch) :
          local = DedupLocal(articles, <<>>)
    /\ file0 = file
    /\ AnalyzerIdle

\* deduplicate_articles(articles) returns
Deduplicate ==
    /\ pc = "deduplicate"
    /\ local' = [local EXCEPT !.unique_articles = deduplicate_articles(local.articles)]
    /\ pc' = "deduplicated"
    /\ UNCHANGED <<hvars, state, cfg, run, file0, avars>>

UNext == Deduplicate

SpecDedup == UInit /\ [][UNext]_vars

\* the positions of s at which the elements of the subsequence t are found,
\* taking each time the first position after the one before
RECURSIVE Placed(_, _, _)
Placed(t, s, from) ==
    IF t = <<>> THEN TRUE
    ELSE \E k \in from..Len(s) :
            /\ s[k] = Head(t)
            /\ \A j \in from..(k - 1) : s[j] # Head(t)
            /\ Placed(Tail(t), s, k + 1)

\* the two titles are similar, whichever is given first to
\* _calculate_similarity
SimilarTitles(t1, t2) ==
    \/ calculate_similarity_ge_threshold(t1, t2)
    \/ calculate_similarity_ge_threshold(t2, t1)

\* C24: the list deduplicate_articles returns is made of articles of its
\* argument in their order, each at its first occurrence; an article is left
\* out only if its url is that of a kept article before it or its title is
\* similar to the title of one; no two kept articles have the same url or
\* similar titles; an empty list gives an empty list.
C24_DeduplicateKeepsFirst ==
    (pc = "deduplicated") =>
        LET kept == local.unique_articles
            articles == local.articles
        IN  /\ Placed(kept, articles, 1)
            /\ (articles = <<>> => kept = <<>>)
            /\ \A i \in DOMAIN articles :
                  (\A k \in DOMAIN kept : kept[k] # articles[i]) =>
                      \E j \in 1..(i - 1) :
                          /\ \E k \in DOMAIN kept : kept[k] = articles[j]
                          /\ \/ articles[j].url = articles[i].url
                             \/ SimilarTitles(articles[i].title, articles[j].title)
            /\ \A i, j \in DOMAIN kept :
                  i < j => /\ kept[i].url # kept[j].url
                           /\ ~SimilarTitles(kept[i].title, kept[j].title)

=============================================================================
